---- MODULE Spec2Model ----
(***************************************************************************)
(* A model of the RoI calculator's evaluation engine: the random types of  *)
(* random_type.py and the CashFlowItem / CashFlowGroup / CashFlowSheet /   *)
(* Summary classes of cash_flow.py.                                        *)
(*                                                                         *)
(* Floats are modelled by integers.  Python objects that are shared by     *)
(* reference (the RandomType instances) live in a heap, `dists`, and are   *)
(* named by their index in it.  An exception is an outcome of a call: the  *)
(* record `ret` of the last call says whether it raised.                   *)
(***************************************************************************)
EXTENDS Integers, Sequences, FiniteSets, TLC

VARIABLES
    dists,            \* the heap of RandomType instances, dists[1] is the default Constant()
    sheet,            \* Summary.cash_flow_sheet.groups
    years,            \* Summary.years
    interest_rate,    \* Summary.interest_rate
    iterations,       \* Summary.iterations
    sampled,          \* Summary.sampled
    total_cash_flow,  \* Summary._total_cash_flow
    net_cash_flow,    \* Summary._net_cash_flow
    calls,            \* the sample_value calls of the get_cash_flow that filled the cache
    ret,              \* the latest call: its name, arguments and outcome
    run,              \* the window_result call in progress: its position and locals
    lists             \* the Python list objects of groups and sheets made on their own

vars == <<dists, sheet, years, interest_rate, iterations, sampled,
          total_cash_flow, net_cash_flow, calls, ret, run, lists>>

summaryVars == <<years, interest_rate, iterations, sampled,
                 total_cash_flow, net_cash_flow, calls>>

\* ret before any call, and after a call that returns nothing or raises
NoCall ==
    [op |-> "none", args |-> <<>>, raised |-> FALSE, value |-> 0,
     drew |-> 0, samplings |-> 0]

Call(op, args, raised) ==
    [op |-> op, args |-> args, raised |-> raised, value |-> 0,
     drew |-> 0, samplings |-> 0]

\* a statistic the result window has not shown
NoStat == [mean |-> [kind |-> "none", num |-> 0, den |-> 1],
           std |-> [kind |-> "none", num |-> 0, den |-> 1]]

NoReport == [IRR |-> NoStat, NPV |-> NoStat, payback_period |-> NoStat]

\* lists before any group or sheet was made on its own: the two lists that
\* are the default arguments of CashFlowGroup.__init__ and of
\* CashFlowSheet.__init__, a list of items and a list of groups of the caller
NoLists ==
    [heap |-> << <<>>, <<>>, <<"a">>, <<"g">> >>, inst |-> <<>>]

\* run while window_result has not been called
NoRun ==
    [pc |-> "idle", iterations |-> 0, i |-> 0, list_IRR |-> <<>>,
     list_NPV |-> <<>>, list_payback_period |-> <<>>, stop_check |-> TRUE,
     trials |-> <<>>, report |-> NoReport]

---------------------------------------------------------------------------
(* Bounds of the model *)

\* the largest year a distribution's interval names and a Summary evaluates
MaxYears == 2

\* the most groups a sheet holds
MaxGroups == 2

\* the most items the groups of a sheet hold in all
MaxLeaves == 3

\* the most RandomType instances that cost assignments allocate
MaxNewDists == 1

\* the largest numerator and denominator of a root that np.irr's result is
\* computed for
MaxRoot == 11

\* math.inf, as a year that is later than every year of the model
INF == 1000000

\* the raw values the random generator can deliver for one draw
Noise == {0, 1, 2}

\* The generator is a stream fixed by its state when a call starts: started
\* in state `seed`, its k-th next value (k = 0, 1, ...) is NoiseAt(seed, k)
NoiseAt(seed, k) == (seed + k) % 3

\* an attribute that was never assigned (reading it raises AttributeError)
Unset == <<>>

---------------------------------------------------------------------------
(* random_type.py *)

Gaussian(mu, sigma, start_year, end_year) ==
    [value |-> 0, kind |-> "Gaussian", mu |-> mu, sigma |-> sigma,
     start_year |-> start_year, end_year |-> end_year, alpha |-> 0]

Constant(value, start_year, end_year) ==
    [value |-> value, kind |-> "Constant", mu |-> 0, sigma |-> 0,
     start_year |-> start_year, end_year |-> end_year, alpha |-> 0]

Pareto(alpha, start_year, end_year) ==
    [value |-> 0, kind |-> "Pareto", mu |-> 0, sigma |-> 0,
     start_year |-> start_year, end_year |-> end_year, alpha |-> alpha]

\* Constant() with every argument defaulted
DefaultConstant == Constant(0, 0, INF)

\* random.gauss(mu, sigma) is mu + z * sigma for a standard normal z
gauss(mu, sigma, n) == mu + (n - 1) * sigma

\* random.paretovariate(alpha) is u ** (-1.0 / alpha) for u in (0, 1]:
\* a value >= 1 when alpha > 0 and a ZeroDivisionError when alpha = 0
paretovariate(alpha, n) ==
    IF alpha = 0
    THEN [raised |-> TRUE, value |-> 0]
    ELSE [raised |-> FALSE, value |-> 1 + n]

\* the test of the three sample_value methods
InInterval_Open(d, year) == year > d.start_year /\ year < d.end_year
InInterval(d, year) == year >= d.start_year /\ year <= d.end_year

\* <variant>.sample_value(year), the generator delivering n if it is asked.
\* drew is the number of values taken from the generator.
sample_value_Drawn(d, year, n) ==
    IF InInterval(d, year)
    THEN [raised |-> FALSE, value |-> gauss(d.value, 1, n), drew |-> 1]
    ELSE [raised |-> FALSE, value |-> 0, drew |-> 0]

sample_value(d, year, n) ==
    IF InInterval(d, year)
    THEN CASE d.kind = "Gaussian" ->
                [raised |-> FALSE, value |-> gauss(d.mu, d.sigma, n), drew |-> 1]
           [] d.kind = "Constant" ->
                [raised |-> FALSE, value |-> d.value, drew |-> 0]
           [] d.kind = "Pareto" ->
                [raised |-> paretovariate(d.alpha, n).raised,
                 value |-> paretovariate(d.alpha, n).value, drew |-> 1]
    ELSE [raised |-> FALSE, value |-> 0, drew |-> 0]

---------------------------------------------------------------------------
(* cash_flow.py: CashFlowItem *)

\* A Python value handed to a call: its type and its content.  The content
\* of a RandomType is its index in the heap, of a list its elements.
Obj(type, v) == [type |-> type, v |-> v]

\* a CashFlowItem; its costs are references to RandomType instances
Item(name, desc, upfront_cost, recurring_cost) ==
    [name |-> name, desc |-> desc,
     upfront_cost |-> upfront_cost, recurring_cost |-> recurring_cost]

\* CashFlowItem._checkCost(cost) on the heap `heap`: the reference it returns
\* and the heap afterwards.  bool is a subclass of int, so isinstance accepts it.
checkCost_AcceptAll(cost, heap) ==
    IF cost.type = "RandomType"
    THEN [raised |-> FALSE, id |-> cost.v, heap |-> heap]
    ELSE [raised |-> FALSE, id |-> Len(heap) + 1,
          heap |-> Append(heap, Constant(0, 0, INF))]

checkCost(cost, heap) ==
    IF cost.type = "RandomType"
    THEN [raised |-> FALSE, id |-> cost.v, heap |-> heap]
    ELSE IF cost.type \in {"float", "int", "bool"}
    THEN [raised |-> FALSE, id |-> Len(heap) + 1,
          heap |-> Append(heap, Constant(cost.v, 0, INF))]
    ELSE [raised |-> TRUE, id |-> 0, heap |-> heap]

\* CashFlowItem(name, desc, upfront_cost, recurring_cost): the two setters in turn
NewCashFlowItem(name, desc, upfront_cost, recurring_cost, heap) ==
    LET u == checkCost(upfront_cost, heap)
        r == checkCost(recurring_cost, u.heap)
    IN  IF u.raised \/ r.raised
        THEN [raised |-> TRUE, item |-> Item(name, desc, 0, 0), heap |-> heap]
        ELSE [raised |-> FALSE, item |-> Item(name, desc, u.id, r.id),
              heap |-> r.heap]

---------------------------------------------------------------------------
(* cash_flow.py: CashFlowGroup and CashFlowSheet *)

Group(name, desc, items) == [name |-> name, desc |-> desc, items |-> items]

\* isinstance(x, Iterable), for the types of the model
Iterable(x) == x.type \in {"list", "str"}

\* the Python list of the CashFlowItems or CashFlowGroups `seq`
ListOf(type, seq) == Obj("list", [k \in DOMAIN seq |-> Obj(type, seq[k])])

\* _check_items(items) and _check_groups(groups): `kind` is the expected class
check(kind, arg) ==
    IF arg.type = kind
    THEN [raised |-> FALSE, list |-> <<arg.v>>]
    ELSE IF Iterable(arg)
    THEN IF \E k \in DOMAIN arg.v : arg.v[k].type # kind
         THEN [raised |-> TRUE, list |-> <<>>]
         ELSE [raised |-> FALSE, list |-> [k \in DOMAIN arg.v |-> arg.v[k].v]]
    ELSE [raised |-> TRUE, list |-> <<>>]

check_items(arg) == check("CashFlowItem", arg)
check_groups(arg) == check("CashFlowGroup", arg)

\* add_items(items) on a group whose list is `list`: the list afterwards
add_items_Prefix(list, arg) ==
    IF arg.type = "CashFlowItem" THEN [raised |-> FALSE, list |-> Append(list, arg.v)]
    ELSE IF ~Iterable(arg) THEN [raised |-> TRUE, list |-> list]
    ELSE LET bad == {k \in DOMAIN arg.v : arg.v[k].type # "CashFlowItem"}
             n == IF bad = {} THEN Len(arg.v)
                  ELSE (CHOOSE k \in bad : \A j \in bad : k <= j) - 1
         IN  [raised |-> bad # {},
              list |-> list \o [k \in 1..n |-> arg.v[k].v]]

add_items(list, arg) ==
    LET c == check_items(arg) IN
    IF c.raised THEN [raised |-> TRUE, list |-> list]
    ELSE [raised |-> FALSE, list |-> list \o c.list]

add_groups(list, arg) ==
    LET c == check_groups(arg) IN
    IF c.raised THEN [raised |-> TRUE, list |-> list]
    ELSE [raised |-> FALSE, list |-> list \o c.list]

\* the list comprehension [x for x in list if x.name not in names]
NotNamed_First(list, names) ==
    LET hit == {k \in DOMAIN list : list[k].name \in names} IN
    IF hit = {} THEN list
    ELSE LET first == CHOOSE k \in hit : \A j \in hit : k <= j
         IN  [k \in 1..(Len(list) - 1) |->
                 IF k < first THEN list[k] ELSE list[k + 1]]

NotNamed(list, names) == SelectSeq(list, LAMBDA x : x.name \notin names)

\* remove_items(item_names): the items setter empties the list and adds
\* the filtered one
remove_items(list, names) ==
    add_items(<<>>, ListOf("CashFlowItem", NotNamed(list, names)))

remove_groups(list, names) ==
    add_groups(<<>>, ListOf("CashFlowGroup", NotNamed(list, names)))

\* the number of items in the groups `groups`
RECURSIVE Leaves(_)
Leaves(groups) ==
    IF groups = <<>> THEN 0
    ELSE Len(Head(groups).items) + Leaves(Tail(groups))

---------------------------------------------------------------------------
(* cash_flow.py: CashFlowSheet.get_cash_flow *)

\* the items of the groups `groups` in hierarchy order, each with its place
RECURSIVE LeafSeq(_, _)
LeafSeq(groups, g) ==
    IF g > Len(groups) THEN <<>>
    ELSE [i \in DOMAIN groups[g].items |->
             [group |-> g, item |-> i,
              upfront_cost |-> groups[g].items[i].upfront_cost,
              recurring_cost |-> groups[g].items[i].recurring_cost]]
         \o LeafSeq(groups, g + 1)

\* The sample_value calls of get_cash_flow(n_years) in the order the list
\* comprehensions make them: get_upfront_cost() samples every item's upfront
\* cost with year 0, then get_recurring_cost(year) every item's recurring
\* cost, for year = 1 .. n_years
CallPlan_AllUpfront(groups, n_years) ==
    LET leaves == LeafSeq(groups, 1)
        L == Len(leaves)
    IN  [p \in 1..(L * (n_years + 1)) |->
            LET year == (p - 1) \div L
                leaf == leaves[((p - 1) % L) + 1]
            IN  [group |-> leaf.group, item |-> leaf.item, year |-> year,
                 cost |-> "upfront", dist |-> leaf.upfront_cost]]

CallPlan(groups, n_years) ==
    LET leaves == LeafSeq(groups, 1)
        L == Len(leaves)
    IN  [p \in 1..(L * (n_years + 1)) |->
            LET year == (p - 1) \div L
                leaf == leaves[((p - 1) % L) + 1]
            IN  [group |-> leaf.group, item |-> leaf.item, year |-> year,
                 cost |-> IF year = 0 THEN "upfront" ELSE "recurring",
                 dist |-> IF year = 0 THEN leaf.upfront_cost
                          ELSE leaf.recurring_cost]]

\* the outcomes of the calls `plan`, the generator starting in state `seed`
Outcomes(plan, heap, seed) ==
    LET takes(p) == sample_value(heap[plan[p].dist], plan[p].year, 0).drew = 1
        before(p) == Cardinality({q \in 1..(p - 1) : takes(q)})
    IN  [p \in DOMAIN plan |->
            sample_value(heap[plan[p].dist], plan[p].year,
                         NoiseAt(seed, before(p)))]

RECURSIVE SumSeq(_)
SumSeq(seq) == IF seq = <<>> THEN 0 ELSE Head(seq) + SumSeq(Tail(seq))

\* sum([sum(grps) for grps in year])
NetOfYear_FirstGroup(year) ==
    IF year = <<>> THEN 0 ELSE SumSeq(year[1])

NetOfYear(year) == SumSeq([g \in DOMAIN year |-> SumSeq(year[g])])

\* the first call of `out` that raised, or the length of `out`
LastCall(out) ==
    IF \A p \in DOMAIN out : ~out[p].raised THEN Len(out)
    ELSE CHOOSE p \in DOMAIN out :
             out[p].raised /\ \A q \in 1..(p - 1) : ~out[q].raised

\* the nested list the comprehensions build from the outcomes `out`:
\* element t + 1 is year t, then one list per group, one value per item
TotalOf(groups, n_years, out) ==
    [t \in 1..(n_years + 1) |->
        [g \in DOMAIN groups |->
            [i \in DOMAIN groups[g].items |->
                out[(t - 1) * Leaves(groups)
                    + Leaves(SubSeq(groups, 1, g - 1)) + i].value]]]

\* [sum([sum(grps) for grps in year]) for year in total_cash_flow]
NetOf(total) == [t \in DOMAIN total |-> NetOfYear(total[t])]

\* what one get_cash_flow leaves behind, its calls having the outcomes `out`:
\* whether a draw raised, the calls made (up to the one that raised), and the
\* pair (total_cash_flow, net_cash_flow)
Collect(groups, n_years, plan, out, ok) ==
    [raised |-> ~ok,
     calls |-> [p \in 1..LastCall(out) |->
                  [group |-> plan[p].group, item |-> plan[p].item,
                   cost |-> plan[p].cost, year |-> plan[p].year,
                   dist |-> plan[p].dist,
                   value |-> out[p].value, drew |-> out[p].drew]],
     drew |-> Cardinality({p \in 1..LastCall(out) : out[p].drew = 1}),
     total_cash_flow |-> IF ok THEN TotalOf(groups, n_years, out) ELSE <<>>,
     net_cash_flow |-> IF ok THEN NetOf(TotalOf(groups, n_years, out))
                       ELSE <<>>]

Sampled(groups, n_years, plan, out) ==
    Collect(groups, n_years, plan, out, \A p \in DOMAIN out : ~out[p].raised)

Planned(groups, n_years, heap, seed, plan) ==
    Sampled(groups, n_years, plan, Outcomes(plan, heap, seed))

\* CashFlowSheet.get_cash_flow(n_years)
get_cash_flow(groups, n_years, heap, seed) ==
    Planned(groups, n_years, heap, seed, CallPlan(groups, n_years))

---------------------------------------------------------------------------
(* The state every specification starts from *)

\* cash_flow.py evaluates the two default arguments of CashFlowItem.__init__
\* once, at import: two Constant() instances that live as long as the program
ImportedDists == <<DefaultConstant, DefaultConstant>>

\* the default arguments of Summary.__init__; interest_rate is in percent
DefaultInterestRate == 10
DefaultYears == 10
DefaultIterations == 10000

\* Summary(cash_flow_sheet) with the default arguments, as window_summary builds it
SummaryInit ==
    /\ years = DefaultYears
    /\ interest_rate = DefaultInterestRate
    /\ iterations = DefaultIterations
    /\ sampled = FALSE
    /\ total_cash_flow = Unset
    /\ net_cash_flow = Unset
    /\ calls = <<>>

---------------------------------------------------------------------------
(* SpecDist: one distribution of any variant, sampled at any year *)

Years == 0..MaxYears

DistSet ==
    {Gaussian(mu, sigma, s, e) :
        mu \in {0, 2}, sigma \in {0, 1}, s \in Years, e \in Years \cup {INF}}
    \cup {Constant(v, s, e) :
        v \in {-2, 0, 3}, s \in Years, e \in Years \cup {INF}}
    \cup {Pareto(alpha, s, e) :
        alpha \in {0, 1, 2}, s \in Years, e \in Years \cup {INF}}

InitDist ==
    /\ \E d \in DistSet : dists = ImportedDists \o <<d>>
    /\ sheet = <<>>
    /\ SummaryInit
    /\ ret = NoCall
    /\ run = NoRun
    /\ lists = NoLists

\* dists[id].sample_value(year)
SampleValue(id, year, n) ==
    LET r == sample_value(dists[id], year, n) IN
    /\ ret' = [op |-> "sample_value", args |-> <<id, year>>, raised |-> r.raised,
               value |-> r.value, drew |-> r.drew, samplings |-> 0]
    /\ UNCHANGED <<dists, sheet, summaryVars>>

NextDist ==
    \E id \in DOMAIN dists, year \in -1..(MaxYears + 1), n \in Noise :
        SampleValue(id, year, n) /\ UNCHANGED <<run, lists>>

SpecDist == InitDist /\ [][NextDist]_vars

---------------------------------------------------------------------------
(* SpecItem: two items of one group, their costs assigned and reassigned *)

\* CashFlowGroup("g", "", [CashFlowItem("a"), CashFlowItem("b")]): both items
\* take the default costs
InitItem ==
    /\ dists = ImportedDists
    /\ sheet = <<Group("g", "", <<Item("a", "", 1, 2), Item("b", "", 1, 2)>>)>>
    /\ SummaryInit
    /\ ret = NoCall
    /\ run = NoRun
    /\ lists = NoLists

\* what a caller hands over as a cost
CostArgs ==
    {Obj("RandomType", id) : id \in DOMAIN dists}
    \cup {Obj("int", 5), Obj("float", 5), Obj("bool", 1), Obj("str", 0)}

\* the edit_item handler of window_cash_flow_group: the item named `name` is
\* replaced by CashFlowItem(name, "", upfront_cost, recurring_cost)
EditItem(g, name, upfront_cost, recurring_cost) ==
    LET c == NewCashFlowItem(name, "", upfront_cost, recurring_cost, dists)
        r == remove_items(sheet[g].items, {name})
        a == add_items(r.list, Obj("CashFlowItem", c.item))
    IN  /\ Len(c.heap) <= Len(ImportedDists) + MaxNewDists
        /\ ret' = Call("CashFlowItem", <<g, name, upfront_cost, recurring_cost>>,
                       c.raised)
        /\ IF c.raised
           THEN UNCHANGED <<sheet, dists>>
           ELSE /\ sheet' = [sheet EXCEPT ![g].items = a.list]
                /\ dists' = c.heap
        /\ UNCHANGED summaryVars

\* sheet.groups[g].items[i].upfront_cost = cost
SetUpfrontCost(g, i, cost) ==
    LET c == checkCost(cost, dists) IN
    /\ Len(c.heap) <= Len(ImportedDists) + MaxNewDists
    /\ ret' = Call("set_upfront_cost", <<g, i, cost>>, c.raised)
    /\ IF c.raised
       THEN UNCHANGED <<sheet, dists>>
       ELSE /\ sheet' = [sheet EXCEPT ![g].items[i].upfront_cost = c.id]
            /\ dists' = c.heap
    /\ UNCHANGED summaryVars

\* sheet.groups[g].items[i].recurring_cost = cost
SetRecurringCost(g, i, cost) ==
    LET c == checkCost(cost, dists) IN
    /\ Len(c.heap) <= Len(ImportedDists) + MaxNewDists
    /\ ret' = Call("set_recurring_cost", <<g, i, cost>>, c.raised)
    /\ IF c.raised
       THEN UNCHANGED <<sheet, dists>>
       ELSE /\ sheet' = [sheet EXCEPT ![g].items[i].recurring_cost = c.id]
            /\ dists' = c.heap
    /\ UNCHANGED summaryVars

NextItem ==
    \/ \E g \in DOMAIN sheet, name \in {"a", "b"}, c \in CostArgs :
           /\ \/ EditItem(g, name, c, Obj("RandomType", 2))
              \/ EditItem(g, name, Obj("RandomType", 1), c)
           /\ UNCHANGED <<run, lists>>
    \/ \E g \in DOMAIN sheet : \E i \in DOMAIN sheet[g].items, c \in CostArgs :
           SetUpfrontCost(g, i, c) /\ UNCHANGED <<run, lists>>
    \/ \E g \in DOMAIN sheet : \E i \in DOMAIN sheet[g].items, c \in CostArgs :
           SetRecurringCost(g, i, c) /\ UNCHANGED <<run, lists>>

SpecItem == InitItem /\ [][NextItem]_vars

---------------------------------------------------------------------------
(* SpecColl: a sheet, its groups and their items added and removed *)

\* what a caller hands to add_items and to add_groups: one x, lists of x and
\* y with and without an element of another type, and values of other types
AddArgs(kind, x, y) ==
    {Obj(kind, x),
     Obj("list", <<>>),
     Obj("list", <<Obj(kind, x), Obj(kind, y)>>),
     Obj("list", <<Obj(kind, y), Obj("str", "a")>>),
     Obj("list", <<Obj("str", "a"), Obj(kind, x)>>),
     Obj("NoneType", 0),
     Obj("str", <<Obj("str", "a")>>)}

ItemArgs ==
    AddArgs("CashFlowItem", Item("a", "", 1, 2), Item("b", "", 1, 2))
    \cup {Obj("CashFlowGroup", Group("g", "", <<>>))}

GroupArgs ==
    AddArgs("CashFlowGroup", Group("g", "", <<>>),
            Group("h", "", <<Item("a", "", 1, 2)>>))
    \cup {Obj("CashFlowItem", Item("a", "", 1, 2))}

ItemNames == {{"a"}, {"a", "b"}, {"z"}}
GroupNames == {{"g"}, {"g", "h"}, {"z"}}

InitColl ==
    /\ dists = ImportedDists
    /\ sheet = <<>>
    /\ SummaryInit
    /\ ret = NoCall
    /\ run = NoRun
    /\ lists = NoLists

\* cash_flow_sheet.add_groups(arg)
AddGroups(arg) ==
    LET a == add_groups(sheet, arg) IN
    /\ Len(a.list) <= MaxGroups
    /\ Leaves(a.list) <= MaxLeaves
    /\ sheet' = a.list
    /\ ret' = Call("add_groups", <<arg>>, a.raised)
    /\ UNCHANGED <<dists, summaryVars>>

\* cash_flow_sheet.remove_groups(names)
RemoveGroups_Invalidates(names) ==
    LET a == remove_groups(sheet, names) IN
    /\ sheet' = a.list
    /\ ret' = Call("remove_groups", <<names>>, a.raised)
    /\ sampled' = FALSE
    /\ UNCHANGED <<dists, years, interest_rate, iterations,
                   total_cash_flow, net_cash_flow, calls>>

RemoveGroups(names) ==
    LET a == remove_groups(sheet, names) IN
    /\ sheet' = a.list
    /\ ret' = Call("remove_groups", <<names>>, a.raised)
    /\ UNCHANGED <<dists, summaryVars>>

\* cash_flow_sheet.groups[g].add_items(arg)
AddItems_Invalidates(g, arg) ==
    LET a == add_items(sheet[g].items, arg) IN
    /\ Leaves(sheet) - Len(sheet[g].items) + Len(a.list) <= MaxLeaves
    /\ sheet' = [sheet EXCEPT ![g].items = a.list]
    /\ ret' = Call("add_items", <<g, arg>>, a.raised)
    /\ sampled' = FALSE
    /\ UNCHANGED <<dists, years, interest_rate, iterations,
                   total_cash_flow, net_cash_flow, calls>>

AddItems(g, arg) ==
    LET a == add_items(sheet[g].items, arg) IN
    /\ Leaves(sheet) - Len(sheet[g].items) + Len(a.list) <= MaxLeaves
    /\ sheet' = [sheet EXCEPT ![g].items = a.list]
    /\ ret' = Call("add_items", <<g, arg>>, a.raised)
    /\ UNCHANGED <<dists, summaryVars>>

\* cash_flow_sheet.groups[g].remove_items(names)
RemoveItems(g, names) ==
    LET a == remove_items(sheet[g].items, names) IN
    /\ sheet' = [sheet EXCEPT ![g].items = a.list]
    /\ ret' = Call("remove_items", <<g, names>>, a.raised)
    /\ UNCHANGED <<dists, summaryVars>>

NextColl ==
    \/ \E arg \in GroupArgs : AddGroups(arg) /\ UNCHANGED <<run, lists>>
    \/ \E names \in GroupNames : RemoveGroups(names) /\ UNCHANGED <<run, lists>>
    \/ \E g \in DOMAIN sheet, arg \in ItemArgs : AddItems(g, arg) /\ UNCHANGED <<run, lists>>
    \/ \E g \in DOMAIN sheet, names \in ItemNames : RemoveItems(g, names) /\ UNCHANGED <<run, lists>>

SpecColl == InitColl /\ [][NextColl]_vars

---------------------------------------------------------------------------
(* cash_flow.py: Summary *)

\* a float that a metric returns: num / den, or numpy's inf and nan
Finite(num, den) == [kind |-> "finite", num |-> num, den |-> den]
NotFinite(kind) == [kind |-> kind, num |-> 0, den |-> 1]

\* np.cumsum(values)
cumsum_Plain(values) == values

cumsum(values) == [k \in DOMAIN values |-> SumSeq(SubSeq(values, 1, k))]

Abs(x) == IF x < 0 THEN -x ELSE x

RECURSIVE Pow(_, _)
Pow(b, e) == IF e = 0 THEN 1 ELSE b * Pow(b, e - 1)

RECURSIVE GCD(_, _)
GCD(a, b) == IF b = 0 THEN a ELSE GCD(b, a % b)

\* 1 / (1 + rate) in lowest terms, rate in percent
Discount(rate) ==
    [num |-> 100 \div GCD(100, 100 + rate),
     den |-> (100 + rate) \div GCD(100, 100 + rate)]

\* sum over k of values[k] * x^(k - 1) for x = d.num / d.den, times d.den^n
Weighted(values, d, n) ==
    SumSeq([k \in DOMAIN values |->
               values[k] * Pow(d.num, k - 1) * Pow(d.den, n - (k - 1))])

\* np.npv(rate, values): the sum of values[t] / (1 + rate) ** t, t from 0
npv_FromYearOne(rate, values) ==
    Finite(Weighted(values, Discount(rate), Len(values) - 1) * Discount(rate).num,
           Pow(Discount(rate).den, Len(values)))

npv(rate, values) ==
    Finite(Weighted(values, Discount(rate), Len(values) - 1),
           Pow(Discount(rate).den, Len(values) - 1))

\* the number of sign changes along `values`, zeros skipped
SignChanges(values) ==
    LET nz == SelectSeq(values, LAMBDA v : v # 0) IN
    Cardinality({k \in 1..(Len(nz) - 1) : (nz[k] < 0) # (nz[k + 1] < 0)})

\* the positive rational roots num / den, in lowest terms and with parts up
\* to MaxRoot, of the polynomial np.roots(values[::-1]) solves: the sum of
\* values[t] * x^t
\* (a root in lowest terms has a numerator that divides the lowest non-zero
\* coefficient and a denominator that divides the highest)
RationalRoots(values) ==
    LET nz == SelectSeq(values, LAMBDA v : v # 0) IN
    {d \in [num : 1..MaxRoot, den : 1..MaxRoot] :
        /\ nz[1] % d.num = 0
        /\ nz[Len(nz)] % d.den = 0
        /\ GCD(d.num, d.den) = 1
        /\ Weighted(values, d, Len(values) - 1) = 0}

\* the rate 1/x - 1 of the root x
RateOf_Root(x) == Finite(x.num, x.den)
RateOf(x) == Finite(x.den - x.num, x.num)

\* np.irr(values): the roots x of the polynomial that are real and positive
\* give the rates 1/x - 1, and the one closest to zero is returned; nan when
\* there is none.  By Descartes' rule there is none when the values never
\* change sign and exactly one when they change sign once: that one is
\* computed here when it is rational and is left symbolic ("irr") when it is
\* not.  With more sign changes the result, a rate or nan, depends on the
\* numerical root finder and is left symbolic ("irr_or_nan").
irr(values) ==
    IF SignChanges(values) = 0 THEN NotFinite("nan")
    ELSE IF SignChanges(values) > 1
    THEN [kind |-> "irr_or_nan", num |-> values, den |-> 1]
    ELSE IF RationalRoots(values) = {}
    THEN [kind |-> "irr", num |-> values, den |-> 1]
    ELSE RateOf(CHOOSE x \in RationalRoots(values) : TRUE)

\* the body of get_payback_period after the sampling test, on the cached
\* net_cash_flow `net` and self.years `n_years`.  A Python index k names
\* element k + 1 here; the index -1 names the last element; an index past the
\* end raises IndexError; numpy divides by zero to inf or nan.
payback_period_Sentinel(net, n_years) ==
    LET cs == cumsum(net)
        n == Len(net)
        pos == {y \in 0..(n_years - 1) : y < n /\ cs[y + 1] > 0}
        first == IF pos # {} THEN CHOOSE y \in pos : \A z \in pos : y <= z
                 ELSE n_years
        complete == first - 1
    IN  IF (pos = {} /\ n_years > n) \/ complete >= n \/ first >= n
        THEN [raised |-> TRUE, value |-> NotFinite("nan")]
        ELSE LET a == IF complete = -1 THEN cs[n] ELSE cs[complete + 1]
                 b == net[first + 1]
             IN  [raised |-> FALSE,
                  value |-> IF b # 0 /\ cs[first + 1] > 0
                            THEN Finite(complete * Abs(b) + Abs(a), Abs(b))
                            ELSE NotFinite("nan")]

payback_period(net, n_years) ==
    LET cs == cumsum(net)
        n == Len(net)
        pos == {y \in 0..(n_years - 1) : y < n /\ cs[y + 1] > 0}
        first == IF pos # {} THEN CHOOSE y \in pos : \A z \in pos : y <= z
                 ELSE n_years
        complete == first - 1
    IN  IF (pos = {} /\ n_years > n) \/ complete >= n \/ first >= n
        THEN [raised |-> TRUE, value |-> NotFinite("nan")]
        ELSE LET a == IF complete = -1 THEN cs[n] ELSE cs[complete + 1]
                 b == net[first + 1]
             IN  [raised |-> FALSE,
                  value |-> IF b # 0
                            THEN Finite(complete * Abs(b) + Abs(a), Abs(b))
                            ELSE IF a # 0 THEN NotFinite("inf")
                            ELSE NotFinite("nan")]

\* a sample_cash_flow that empties the cache before it draws
AfterSampling_Resets(r) ==
    [raised |-> r.raised, sampled |-> ~r.raised,
     calls |-> r.calls,
     total_cash_flow |-> r.total_cash_flow,
     net_cash_flow |-> r.net_cash_flow,
     drew |-> r.drew, samplings |-> 1]

\* The Summary after sample_cash_flow, its get_cash_flow having given r: the
\* three assignments are made only when get_cash_flow returned
AfterSampling(r) ==
    [raised |-> r.raised, sampled |-> sampled \/ ~r.raised,
     calls |-> IF r.raised THEN calls ELSE r.calls,
     total_cash_flow |-> IF r.raised THEN total_cash_flow ELSE r.total_cash_flow,
     net_cash_flow |-> IF r.raised THEN net_cash_flow ELSE r.net_cash_flow,
     drew |-> r.drew, samplings |-> 1]

\* `if not self.sampled: self.sample_cash_flow()`: the Summary afterwards
Lazy_Always(seed) == AfterSampling(get_cash_flow(sheet, years, dists, seed))

Lazy(seed) ==
    IF sampled
    THEN [raised |-> FALSE, sampled |-> TRUE, calls |-> calls,
          total_cash_flow |-> total_cash_flow, net_cash_flow |-> net_cash_flow,
          drew |-> 0, samplings |-> 0]
    ELSE AfterSampling(get_cash_flow(sheet, years, dists, seed))

\* a call that (lazily) samples and then returns `value` or raises
LazyCall(op, l, raised, value) ==
    /\ sampled' = l.sampled
    /\ calls' = l.calls
    /\ total_cash_flow' = l.total_cash_flow
    /\ net_cash_flow' = l.net_cash_flow
    /\ ret' = [op |-> op, args |-> <<>>, raised |-> l.raised \/ raised,
               value |-> IF l.raised \/ raised THEN 0 ELSE value,
               drew |-> l.drew, samplings |-> l.samplings]
    /\ UNCHANGED <<dists, sheet, years, interest_rate, iterations>>

\* summary.sample_cash_flow()
SampleCashFlow(seed) ==
    LazyCall("sample_cash_flow",
             AfterSampling(get_cash_flow(sheet, years, dists, seed)), FALSE, 0)

\* x = summary.total_cash_flow
ReadTotalCashFlow(seed) ==
    LET l == Lazy(seed) IN LazyCall("total_cash_flow", l, FALSE, l.total_cash_flow)

\* x = summary.net_cash_flow
ReadNetCashFlow(seed) ==
    LET l == Lazy(seed) IN LazyCall("net_cash_flow", l, FALSE, l.net_cash_flow)

\* summary.total_cash_flow = x
WriteTotalCashFlow ==
    /\ ret' = Call("set_total_cash_flow", <<>>, TRUE)
    /\ UNCHANGED <<dists, sheet, summaryVars>>

\* summary.net_cash_flow = x
WriteNetCashFlow_Stores ==
    /\ net_cash_flow' = <<0>>
    /\ ret' = Call("set_net_cash_flow", <<>>, FALSE)
    /\ UNCHANGED <<dists, sheet, years, interest_rate, iterations, sampled,
                   total_cash_flow, calls>>

WriteNetCashFlow ==
    /\ ret' = Call("set_net_cash_flow", <<>>, TRUE)
    /\ UNCHANGED <<dists, sheet, summaryVars>>

\* summary.get_IRR()
GetIRR(seed) ==
    LET l == Lazy(seed) IN
    LazyCall("get_IRR", l, FALSE, irr(l.net_cash_flow))

\* summary.get_NPV()
GetNPV(seed) ==
    LET l == Lazy(seed) IN
    LazyCall("get_NPV", l, FALSE, npv(interest_rate, l.net_cash_flow))

\* summary.get_payback_period()
GetPaybackPeriod(seed) ==
    LET l == Lazy(seed) IN
    LazyCall("get_payback_period", l,
             payback_period(l.net_cash_flow, years).raised,
             payback_period(l.net_cash_flow, years).value)

\* summary.years = y, as the OK handler of window_summary does
SetYears(y) ==
    /\ years' = y
    /\ ret' = Call("set_years", <<y>>, FALSE)
    /\ UNCHANGED <<dists, sheet, interest_rate, iterations, sampled,
                   total_cash_flow, net_cash_flow, calls>>

\* summary.interest_rate = r
SetInterestRate(r) ==
    /\ interest_rate' = r
    /\ ret' = Call("set_interest_rate", <<r>>, FALSE)
    /\ UNCHANGED <<dists, sheet, years, iterations, sampled,
                   total_cash_flow, net_cash_flow, calls>>

---------------------------------------------------------------------------
(* Spec: a Summary over a sheet that is edited, sampled and evaluated *)

\* the distributions the items of the sheet refer to
Pool ==
    ImportedDists \o <<Gaussian(-2, 1, 0, INF), Constant(3, 1, 1),
                       Pareto(1, 0, INF), Pareto(0, 2, 2)>>

\* the groups a caller adds to the sheet
G1 == Group("g", "", <<Item("a", "", 3, 4)>>)
G2 == Group("h", "", <<Item("b", "", 5, 3), Item("a", "", 1, 6)>>)

Seeds == {0, 1}

\* Summary(CashFlowSheet(), years=y)
Init ==
    /\ dists = Pool
    /\ sheet = <<>>
    /\ years \in Years
    /\ interest_rate = DefaultInterestRate
    /\ iterations = DefaultIterations
    /\ sampled = FALSE
    /\ total_cash_flow = Unset
    /\ net_cash_flow = Unset
    /\ calls = <<>>
    /\ ret = NoCall
    /\ run = NoRun
    /\ lists = NoLists

Next ==
    \/ \E seed \in Seeds : SampleCashFlow(seed) /\ UNCHANGED <<run, lists>>
    \/ \E seed \in Seeds : ReadTotalCashFlow(seed) /\ UNCHANGED <<run, lists>>
    \/ \E seed \in Seeds : ReadNetCashFlow(seed) /\ UNCHANGED <<run, lists>>
    \/ WriteTotalCashFlow /\ UNCHANGED <<run, lists>>
    \/ WriteNetCashFlow /\ UNCHANGED <<run, lists>>
    \/ \E seed \in Seeds : GetIRR(seed) /\ UNCHANGED <<run, lists>>
    \/ \E seed \in Seeds : GetNPV(seed) /\ UNCHANGED <<run, lists>>
    \/ \E seed \in Seeds : GetPaybackPeriod(seed) /\ UNCHANGED <<run, lists>>
    \/ \E y \in Years : SetYears(y) /\ UNCHANGED <<run, lists>>
    \/ \E r \in {0, DefaultInterestRate} : SetInterestRate(r) /\ UNCHANGED <<run, lists>>
    \/ \E g \in {G1, G2} : AddGroups(Obj("CashFlowGroup", g)) /\ UNCHANGED <<run, lists>>
    \/ \E names \in {{"g"}, {"h"}} : RemoveGroups(names) /\ UNCHANGED <<run, lists>>

Spec == Init /\ [][Next]_vars

---------------------------------------------------------------------------
(* SpecEdit: a Summary whose sheet is edited, group by group and item by   *)
(* item, between samplings and reads                                       *)

\* the item a caller adds to a group
NewItem == Item("c", "", 4, 3)

\* Summary(CashFlowSheet([G1]), years=1)
InitEdit ==
    /\ dists = Pool
    /\ sheet = <<G1>>
    /\ years = 1
    /\ interest_rate = DefaultInterestRate
    /\ iterations = DefaultIterations
    /\ sampled = FALSE
    /\ total_cash_flow = Unset
    /\ net_cash_flow = Unset
    /\ calls = <<>>
    /\ ret = NoCall
    /\ run = NoRun
    /\ lists = NoLists

NextEdit ==
    \/ \E seed \in Seeds : SampleCashFlow(seed) /\ UNCHANGED <<run, lists>>
    \/ ReadTotalCashFlow(0) /\ UNCHANGED <<run, lists>>
    \/ ReadNetCashFlow(0) /\ UNCHANGED <<run, lists>>
    \/ GetIRR(0) /\ UNCHANGED <<run, lists>>
    \/ GetNPV(0) /\ UNCHANGED <<run, lists>>
    \/ GetPaybackPeriod(0) /\ UNCHANGED <<run, lists>>
    \/ AddGroups(Obj("CashFlowGroup", G2)) /\ UNCHANGED <<run, lists>>
    \/ \E names \in {{"g"}, {"h"}} : RemoveGroups(names) /\ UNCHANGED <<run, lists>>
    \/ \E g \in DOMAIN sheet : AddItems(g, Obj("CashFlowItem", NewItem)) /\ UNCHANGED <<run, lists>>
    \/ \E g \in DOMAIN sheet : RemoveItems(g, {"a"}) /\ UNCHANGED <<run, lists>>

SpecEdit == InitEdit /\ [][NextEdit]_vars

---------------------------------------------------------------------------
(* SpecMetric: the three metrics on a scenario made of Constant costs,     *)
(* which has one given net cash flow                                       *)

\* the yearly net flows of the small scenarios
FlowValues == {-2, 0, 1, 3}

RECURSIVE SeqsOf(_, _)
SeqsOf(S, n) ==
    IF n = 0 THEN {<<>>}
    ELSE {Append(q, v) : q \in SeqsOf(S, n - 1), v \in S}

\* the net cash flows evaluated: every flow of the small values over the
\* horizons 0..MaxYears, and the two flows with a documented result
Flows ==
    UNION {SeqsOf(FlowValues, n + 1) : n \in Years}
    \cup {<<-100, 110>>, <<-100, 30, 30, 30, 30>>}

\* Constant distributions that make the net flow `flow`: one per year, active
\* in that year only
FlowDists(flow) ==
    ImportedDists \o [k \in DOMAIN flow |-> Constant(flow[k], k - 1, k - 1)]

\* one group of one item per year: the item of year 0 has the year's
\* Constant as its upfront cost, the item of a later year as its recurring
\* cost, and the default Constant() as the other cost
FlowSheet(flow) ==
    <<Group("flows", "",
            [k \in DOMAIN flow |->
                IF k = 1
                THEN Item("year", "", Len(ImportedDists) + k, 2)
                ELSE Item("year", "", 1, Len(ImportedDists) + k)])>>

Rates == {0, DefaultInterestRate}

\* Summary(sheet, interest_rate=r, years=len(flow) - 1)
InitMetric ==
    \E flow \in Flows :
        /\ dists = FlowDists(flow)
        /\ sheet = FlowSheet(flow)
        /\ years = Len(flow) - 1
        /\ interest_rate \in Rates
        /\ iterations = DefaultIterations
        /\ sampled = FALSE
        /\ total_cash_flow = Unset
        /\ net_cash_flow = Unset
        /\ calls = <<>>
        /\ ret = NoCall
        /\ run = NoRun
        /\ lists = NoLists
    /\ run = NoRun
    /\ lists = NoLists

NextMetric ==
    \/ SampleCashFlow(0) /\ UNCHANGED <<run, lists>>
    \/ ReadNetCashFlow(0) /\ UNCHANGED <<run, lists>>
    \/ GetIRR(0) /\ UNCHANGED <<run, lists>>
    \/ GetNPV(0) /\ UNCHANGED <<run, lists>>
    \/ GetPaybackPeriod(0) /\ UNCHANGED <<run, lists>>
    \/ \E r \in Rates : SetInterestRate(r) /\ UNCHANGED <<run, lists>>

SpecMetric == InitMetric /\ [][NextMetric]_vars

---------------------------------------------------------------------------
(* window_result.py: the Monte Carlo run *)

\* the most iterations a run is asked for
MaxIterations == 3

\* np.zeros((n, ))
zeros(n) == [k \in 1..n |-> Finite(0, 1)]

\* np.mean(xs): nan for an empty array and for one holding a nan, inf for one
\* holding an inf, the common value of equal entries (up to rounding); the mean
\* of different entries is not computed
mean(xs) ==
    IF xs = <<>> THEN NotFinite("nan")
    ELSE IF \E k \in DOMAIN xs : xs[k].kind = "nan" THEN NotFinite("nan")
    ELSE IF \E k \in DOMAIN xs : xs[k].kind = "inf" THEN NotFinite("inf")
    ELSE IF \A k \in DOMAIN xs : xs[k] = xs[1] THEN xs[1]
    ELSE IF \E k \in DOMAIN xs : xs[k].kind = "irr_or_nan"
    THEN [kind |-> "mean_or_nan", num |-> xs, den |-> 1]
    ELSE [kind |-> "mean", num |-> xs, den |-> 1]

\* np.std(xs): nan for an empty array and for one holding a nan or an inf
\* (inf - inf is nan), 0 for equal finite entries; the deviation of different
\* entries is not computed
std_Zero(xs) == Finite(0, 1)

std(xs) ==
    IF xs = <<>> THEN NotFinite("nan")
    ELSE IF \E k \in DOMAIN xs : xs[k].kind \in {"nan", "inf"} THEN NotFinite("nan")
    ELSE IF \E k \in DOMAIN xs : xs[k].kind = "irr_or_nan"
    THEN [kind |-> "std_or_nan", num |-> xs, den |-> 1]
    ELSE IF \A k \in DOMAIN xs : xs[k] = xs[1] THEN Finite(0, 1)
    ELSE [kind |-> "std", num |-> xs, den |-> 1]

Stat(xs) == [mean |-> mean(xs), std |-> std(xs)]

\* an exception of a Summary call leaves window_result
Raised == [run EXCEPT !.pc = "raised"]

\* window_result(summary) is called: lines 6-9 and the first test of the `for`
McStart ==
    /\ run.pc \in {"idle", "done", "cancelled", "raised"}
    /\ run' = [pc |-> IF iterations > 0 THEN "sample" ELSE "report",
               iterations |-> iterations, i |-> 0,
               list_IRR |-> zeros(iterations), list_NPV |-> zeros(iterations),
               list_payback_period |-> zeros(iterations), stop_check |-> TRUE,
               trials |-> <<>>, report |-> NoReport]
    /\ ret' = Call("window_result", <<>>, FALSE)
    /\ UNCHANGED <<dists, sheet, summaryVars>>

\* line 11: summary.sample_cash_flow(); trials records the net cash flow of
\* each iteration's sampling
McSample(seed) ==
    /\ run.pc = "sample"
    /\ SampleCashFlow(seed)
    /\ run' = IF ret'.raised THEN Raised
              ELSE [run EXCEPT !.pc = "irr",
                               !.trials = Append(@, net_cash_flow')]

\* line 12: list_IRR[i] = summary.get_IRR()
McIRR(seed) ==
    /\ run.pc = "irr"
    /\ GetIRR(seed)
    /\ run' = IF ret'.raised THEN Raised
              ELSE [run EXCEPT !.pc = "npv", !.list_IRR[run.i + 1] = ret'.value]

\* line 13: list_NPV[i] = summary.get_NPV()
McNPV_Resamples(seed) ==
    /\ run.pc = "npv"
    /\ LazyCall("get_NPV", Lazy_Always(seed), FALSE,
                npv(interest_rate, Lazy_Always(seed).net_cash_flow))
    /\ run' = IF ret'.raised THEN Raised
              ELSE [run EXCEPT !.pc = "payback", !.list_NPV[run.i + 1] = ret'.value]

McNPV(seed) ==
    /\ run.pc = "npv"
    /\ GetNPV(seed)
    /\ run' = IF ret'.raised THEN Raised
              ELSE [run EXCEPT !.pc = "payback", !.list_NPV[run.i + 1] = ret'.value]

\* line 14: list_payback_period[i] = summary.get_payback_period()
McPayback(seed) ==
    /\ run.pc = "payback"
    /\ GetPaybackPeriod(seed)
    /\ run' = IF ret'.raised THEN Raised
              ELSE [run EXCEPT !.pc = "meter",
                               !.list_payback_period[run.i + 1] = ret'.value]

\* lines 15-17 and the next test of the `for`: the progress meter answers
\* stop_check, False when the user cancelled
McMeter_Deaf(stop_check) ==
    /\ run.pc = "meter"
    /\ run' = [run EXCEPT !.stop_check = stop_check, !.i = @ + 1,
                          !.pc = IF run.i + 1 < run.iterations
                                 THEN "sample" ELSE "report"]
    /\ UNCHANGED <<dists, sheet, summaryVars, ret>>

McMeter(stop_check) ==
    /\ run.pc = "meter"
    /\ run' = IF ~stop_check /\ run.i + 1 # run.iterations
              THEN [run EXCEPT !.stop_check = stop_check, !.pc = "cancelled"]
              ELSE [run EXCEPT !.stop_check = stop_check, !.i = @ + 1,
                               !.pc = IF run.i + 1 < run.iterations
                                      THEN "sample" ELSE "report"]
    /\ UNCHANGED <<dists, sheet, summaryVars, ret>>

\* lines 19-29: the result window shows the mean and the deviation of each list
McReport ==
    /\ run.pc = "report"
    /\ run' = [run EXCEPT !.pc = "done",
                          !.report = [IRR |-> Stat(run.list_IRR),
                                      NPV |-> Stat(run.list_NPV),
                                      payback_period |->
                                          Stat(run.list_payback_period)]]
    /\ UNCHANGED <<dists, sheet, summaryVars, ret>>

---------------------------------------------------------------------------
(* SpecRun: Monte Carlo runs over random, failing, blank and Constant-only  *)
(* scenarios                                                                *)

\* the net flows of the Constant-only scenarios
RunFlows == {<<-2, 3>>, <<-2, 0>>, <<-2, 1, 3>>}

Scenarios ==
    {[dists |-> Pool, sheet |-> s, years |-> y] :
        s \in {<<>>, <<G1>>, <<G1, G2>>}, y \in 1..MaxYears}
    \cup {[dists |-> FlowDists(f), sheet |-> FlowSheet(f), years |-> Len(f) - 1] :
            f \in RunFlows}

\* Summary(sheet, years=y, iterations=n)
InitRun ==
    \E sc \in Scenarios :
        /\ dists = sc.dists
        /\ sheet = sc.sheet
        /\ years = sc.years
        /\ interest_rate = DefaultInterestRate
        /\ iterations \in 0..MaxIterations
        /\ sampled = FALSE
        /\ total_cash_flow = Unset
        /\ net_cash_flow = Unset
        /\ calls = <<>>
        /\ ret = NoCall
        /\ run = NoRun
        /\ lists = NoLists

NextRun ==
    \/ McStart /\ UNCHANGED lists
    \/ \E seed \in Seeds : McSample(seed) /\ UNCHANGED lists
    \/ \E seed \in Seeds : McIRR(seed) /\ UNCHANGED lists
    \/ \E seed \in Seeds : McNPV(seed) /\ UNCHANGED lists
    \/ \E seed \in Seeds : McPayback(seed) /\ UNCHANGED lists
    \/ \E stop_check \in BOOLEAN : McMeter(stop_check) /\ UNCHANGED lists
    \/ McReport /\ UNCHANGED lists

SpecRun == InitRun /\ [][NextRun]_vars

---------------------------------------------------------------------------
(* random_type.py and cash_flow.py: XML elements *)

\* The text of an element: None, a Python str (the empty one included) or the
\* str() of a number.  Absent is the text of a child the element does not
\* have: find() returns None for it and reading .text raises.
NoText == [num |-> 0, is |-> "None", chars |-> ""]
Absent == [num |-> 0, is |-> "absent", chars |-> ""]
StrText(s) == [num |-> 0, is |-> "str", chars |-> s]
EmptyText == StrText("")

\* str(n) of a number n: the decimal text that float() reads back as n
str(n) == [num |-> n, is |-> "number", chars |-> ""]

\* float(text): the number of a decimal text; ValueError for any other str,
\* the empty one included, TypeError for None
float(t) ==
    IF t.is = "number"
    THEN [raised |-> FALSE, value |-> t.num]
    ELSE [raised |-> TRUE, value |-> 0]

\* math.floor(x) of a whole number
floor(x) == x

\* the value None where the model holds a str
PyNone == "<None>"

\* element.text = s, and s = element.text
SetText(s) == IF s = PyNone THEN NoText ELSE StrText(s)
GetText(t) == IF t.is = "str" THEN t.chars ELSE PyNone

\* _value_or_default(value, default)
value_or_default(value, default) ==
    IF value = NoText
    THEN [raised |-> FALSE, value |-> default]
    ELSE float(value)

\* _value_or_empty(value, compare_to)
value_or_empty(value, compare_to) ==
    IF value = compare_to THEN EmptyText ELSE str(value)

\* <variant>.generate_etree_element() of the distribution d
dist_generate_etree_element(d) ==
    [value |-> IF d.kind = "Constant" THEN str(d.value) ELSE Absent,
     mu |-> IF d.kind = "Gaussian" THEN str(d.mu) ELSE Absent,
     sigma |-> IF d.kind = "Gaussian" THEN str(d.sigma) ELSE Absent,
     alpha |-> IF d.kind = "Pareto" THEN str(d.alpha) ELSE Absent,
     tag |-> d.kind,
     startYear |-> value_or_empty(d.start_year, 0),
     endYear |-> value_or_empty(d.end_year, INF)]

\* reading .text of the child named by t
TextRaises(t) == t = Absent

\* the outcome of a create_from_etree_element: it raised, or it returned
\* None, or it returned `value`
Created(value) == [raised |-> FALSE, value |-> value, none |-> FALSE]
CreateRaised == [raised |-> TRUE, value |-> 0, none |-> FALSE]
CreatedNone == [raised |-> FALSE, value |-> 0, none |-> TRUE]

\* <variant>.create_from_etree_element(e), for the variant the tag names
variant_create_from_etree_element(e) ==
    LET s == value_or_default(e.startYear, 0)
        n == value_or_default(e.endYear, INF)
        P(t) == IF TextRaises(t) THEN [raised |-> TRUE, value |-> 0] ELSE float(t)
    IN  IF TextRaises(e.startYear) \/ TextRaises(e.endYear) \/ s.raised \/ n.raised
        THEN CreateRaised
        ELSE CASE e.tag = "Gaussian" ->
                    IF P(e.mu).raised \/ P(e.sigma).raised THEN CreateRaised
                    ELSE Created(Gaussian(P(e.mu).value, P(e.sigma).value,
                                          s.value, n.value))
               [] e.tag = "Constant" ->
                    IF P(e.value).raised THEN CreateRaised
                    ELSE Created(Constant(P(e.value).value, s.value, n.value))
               [] e.tag = "Pareto" ->
                    IF P(e.alpha).raised THEN CreateRaised
                    ELSE Created(Pareto(P(e.alpha).value, s.value, n.value))

\* random_type.create_from_etree_element(e): the if/elif chain has no else
dist_create_from_etree_element(e) ==
    IF e.tag \in {"Gaussian", "Constant", "Pareto"}
    THEN variant_create_from_etree_element(e)
    ELSE CreatedNone

\* CashFlowItem.generate_etree_element() of the item `it`, its costs in `heap`
item_generate_etree_element(it, heap) ==
    [name |-> SetText(it.name), desc |-> SetText(it.desc),
     upfrontCost |-> <<dist_generate_etree_element(heap[it.upfront_cost])>>,
     recurringCost |-> <<dist_generate_etree_element(heap[it.recurring_cost])>>]

\* `for random_type_element in children: cost = create_from_etree_element(...)`:
\* the cost is the one of the last child, and unbound when there is no child
cost_of_children(children) ==
    IF children = <<>>
       \/ \E k \in DOMAIN children : dist_create_from_etree_element(children[k]).raised
    THEN CreateRaised
    ELSE dist_create_from_etree_element(children[Len(children)])

\* CashFlowItem.create_from_etree_element(e); the item it returns holds its
\* two distributions themselves.  cls(...) passes each cost to _checkCost,
\* which raises for None.
item_create_from_etree_element(e) ==
    IF TextRaises(e.name) \/ TextRaises(e.desc)
       \/ cost_of_children(e.upfrontCost).raised
       \/ cost_of_children(e.recurringCost).raised
       \/ cost_of_children(e.upfrontCost).none
       \/ cost_of_children(e.recurringCost).none
    THEN CreateRaised
    ELSE Created([name |-> GetText(e.name),
                  desc |-> IF e.desc = NoText THEN "" ELSE GetText(e.desc),
                  upfront_cost |-> cost_of_children(e.upfrontCost).value,
                  recurring_cost |-> cost_of_children(e.recurringCost).value])

\* CashFlowGroup.generate_etree_element()
group_generate_etree_element(g, heap) ==
    [name |-> SetText(g.name), desc |-> SetText(g.desc),
     items |-> [i \in DOMAIN g.items |->
                   item_generate_etree_element(g.items[i], heap)]]

\* CashFlowGroup.create_from_etree_element(e)
group_create_from_etree_element(e) ==
    IF TextRaises(e.name) \/ TextRaises(e.desc)
       \/ \E i \in DOMAIN e.items : item_create_from_etree_element(e.items[i]).raised
    THEN CreateRaised
    ELSE Created([name |-> GetText(e.name),
                  desc |-> IF e.desc = NoText THEN "" ELSE GetText(e.desc),
                  items |-> [i \in DOMAIN e.items |->
                                item_create_from_etree_element(e.items[i]).value]])

\* CashFlowSheet.generate_etree_element()
sheet_generate_etree_element(groups, heap) ==
    [g \in DOMAIN groups |-> group_generate_etree_element(groups[g], heap)]

\* CashFlowSheet.create_from_etree_element(e)
sheet_create_from_etree_element(e) ==
    IF \E g \in DOMAIN e : group_create_from_etree_element(e[g]).raised
    THEN CreateRaised
    ELSE Created([g \in DOMAIN e |-> group_create_from_etree_element(e[g]).value])

\* Summary.generate_etree_element()
summary_generate_etree_element ==
    [InterestRate |-> str(interest_rate), Years |-> str(years),
     Iterations |-> str(iterations),
     CashFlowSheet |-> sheet_generate_etree_element(sheet, dists)]

\* Summary.create_from_etree_element(e): the Summary it returns.  The
\* Iterations child is not read: cls(...) takes the default.
summary_create_from_etree_element(e) ==
    IF sheet_create_from_etree_element(e.CashFlowSheet).raised
       \/ float(e.InterestRate).raised \/ float(e.Years).raised
    THEN CreateRaised
    ELSE Created([cash_flow_sheet |->
                      sheet_create_from_etree_element(e.CashFlowSheet).value,
                  interest_rate |-> float(e.InterestRate).value,
                  years |-> floor(float(e.Years).value),
                  iterations |-> DefaultIterations,
                  sampled |-> FALSE])

\* tree.write(file) followed by etree.parse(file): an element whose text is
\* the empty str is read back with the text None
ParsedText(t) == IF t = EmptyText THEN NoText ELSE t

ParsedDist(e) ==
    [value |-> ParsedText(e.value), mu |-> ParsedText(e.mu),
     sigma |-> ParsedText(e.sigma), alpha |-> ParsedText(e.alpha),
     tag |-> e.tag,
     startYear |-> ParsedText(e.startYear), endYear |-> ParsedText(e.endYear)]

ParsedItem(e) ==
    [name |-> ParsedText(e.name), desc |-> ParsedText(e.desc),
     upfrontCost |-> [k \in DOMAIN e.upfrontCost |-> ParsedDist(e.upfrontCost[k])],
     recurringCost |->
         [k \in DOMAIN e.recurringCost |-> ParsedDist(e.recurringCost[k])]]

ParsedGroup(e) ==
    [name |-> ParsedText(e.name), desc |-> ParsedText(e.desc),
     items |-> [i \in DOMAIN e.items |-> ParsedItem(e.items[i])]]

ParsedSummary(e) ==
    [InterestRate |-> ParsedText(e.InterestRate), Years |-> ParsedText(e.Years),
     Iterations |-> ParsedText(e.Iterations),
     CashFlowSheet |-> [g \in DOMAIN e.CashFlowSheet |->
                           ParsedGroup(e.CashFlowSheet[g])]]

---------------------------------------------------------------------------
(* SpecXml: a Summary written to an element or a document and read back *)

\* a call of the XML functions: it leaves the Summary as it is
XmlCall(op, args, raised, value) ==
    /\ ret' = [op |-> op, args |-> args, raised |-> raised, value |-> value,
               drew |-> 0, samplings |-> 0]
    /\ UNCHANGED <<dists, sheet, summaryVars, run, lists>>

\* e = summary.generate_etree_element()
GenerateEtreeElement ==
    XmlCall("generate_etree_element", <<>>, FALSE, summary_generate_etree_element)

\* generate_XML_file(summary, file): the element is written to the file
GenerateXMLFile ==
    XmlCall("generate_XML_file", <<>>, FALSE, summary_generate_etree_element)

\* Summary.create_from_etree_element(e) of the element just generated
CreateFromEtreeElement ==
    /\ ret.op = "generate_etree_element"
    /\ XmlCall("create_from_etree_element", <<"element">>,
               summary_create_from_etree_element(ret.value).raised,
               summary_create_from_etree_element(ret.value))

\* read_XML_file(file) of the file just written: the document is parsed,
\* xmlschema.assertValid raises when the schema (xml_spec.xsd, a file that is
\* not part of the sources) rejects it, and the root element is read
ReadXMLFile(valid) ==
    /\ ret.op = "generate_XML_file"
    /\ XmlCall("read_XML_file", <<"document">>,
               ~valid \/ summary_create_from_etree_element(ParsedSummary(ret.value)).raised,
               IF valid
               THEN summary_create_from_etree_element(ParsedSummary(ret.value))
               ELSE CreateRaised)

\* random_type.create_from_etree_element(e)
LoadDist(e) ==
    XmlCall("random_type.create_from_etree_element", <<e>>,
            dist_create_from_etree_element(e).raised,
            dist_create_from_etree_element(e))

\* CashFlowItem.create_from_etree_element(e)
LoadItem(e) ==
    XmlCall("CashFlowItem.create_from_etree_element", <<e>>,
            item_create_from_etree_element(e).raised,
            item_create_from_etree_element(e))

\* the elements the three variants generate, as generated and as parsed from
\* a document
GeneratedElements == {dist_generate_etree_element(d) : d \in DistSet}
DistElements == GeneratedElements \cup {ParsedDist(e) : e \in GeneratedElements}

\* elements with a tag that names no variant
ForeignElements ==
    {[e EXCEPT !.tag = t] :
        e \in {ParsedDist(dist_generate_etree_element(d)) :
                  d \in {Constant(3, 1, 1), Gaussian(0, 1, 0, INF), Pareto(2, 0, 2)}},
        t \in {"Uniform", "constant"}}

\* item elements over a few distribution elements
CostElements ==
    ForeignElements
    \cup {ParsedDist(dist_generate_etree_element(d)) :
             d \in {DefaultConstant, Constant(3, 1, 1), Pareto(2, 0, 2)}}
    \cup {dist_generate_etree_element(Constant(3, 1, 1))}

ItemElements ==
    {[name |-> StrText("a"), desc |-> NoText,
      upfrontCost |-> <<u>>, recurringCost |-> <<r>>] :
        u \in CostElements, r \in CostElements}

\* the groups of the Summaries written: costs with bounds that are written
\* (G3), and empty names (G4)
G3 == Group("k", "d", <<Item("c", "", 4, 6)>>)
G4 == Group("", "", <<Item("", "x", 4, 4)>>)

XmlSheets == {<<>>, <<G1>>, <<G3>>, <<G3, G1>>, <<G4>>}

\* Summary(CashFlowSheet(groups), interest_rate=r, years=y, iterations=n)
InitXml ==
    /\ dists = Pool
    /\ sheet \in XmlSheets
    /\ years \in Years
    /\ interest_rate \in Rates
    /\ iterations \in {1, DefaultIterations}
    /\ sampled = FALSE
    /\ total_cash_flow = Unset
    /\ net_cash_flow = Unset
    /\ calls = <<>>
    /\ ret = NoCall
    /\ run = NoRun
    /\ lists = NoLists

NextXml ==
    \/ SampleCashFlow(0) /\ UNCHANGED <<run, lists>>
    \/ GenerateEtreeElement
    \/ GenerateXMLFile
    \/ CreateFromEtreeElement
    \/ \E valid \in BOOLEAN : ReadXMLFile(valid)

SpecXml == InitXml /\ [][NextXml]_vars

---------------------------------------------------------------------------
(* SpecLoad: distribution and item elements read, one after the other *)

InitLoad ==
    /\ dists = ImportedDists
    /\ sheet = <<>>
    /\ SummaryInit
    /\ ret = NoCall
    /\ run = NoRun
    /\ lists = NoLists

NextLoad ==
    \/ \E e \in DistElements \cup ForeignElements : LoadDist(e)
    \/ \E e \in ItemElements : LoadItem(e)

SpecLoad == InitLoad /\ [][NextLoad]_vars

---------------------------------------------------------------------------
(* cash_flow.py: the list objects of CashFlowGroup and CashFlowSheet *)

\* the most instances constructed and the most elements of one list
MaxInstances == 2
MaxLen == 1

Classes == {"CashFlowGroup", "CashFlowSheet"}

\* lists.heap[id] is the content of the list object id, its elements given by
\* their names; lists.inst[k].list is the object that instance k holds as
\* _items or _groups.  The objects 1 and 2 are the default arguments `[]` of
\* the two __init__, evaluated once; 3 and 4 are lists of the caller.
DefaultListOf(cls) == IF cls = "CashFlowGroup" THEN 1 ELSE 2
CallerListOf(cls) == IF cls = "CashFlowGroup" THEN 3 ELSE 4

\* the elements a class holds: items "a", "b" for a group, groups "g", "h"
\* for a sheet
ElementsOf(cls) == IF cls = "CashFlowGroup" THEN {"a", "b"} ELSE {"g", "h"}

\* _check_items(arg) and _check_groups(arg): a single element gives a new
\* list of it, a list object of elements gives list(arg), a copy; anything
\* else raises TypeError
check_list(cls, arg, heap) ==
    IF arg.type = "element"
    THEN [raised |-> arg.v \notin ElementsOf(cls), list |-> <<arg.v>>]
    ELSE IF arg.type = "list"
    THEN [raised |-> \E k \in DOMAIN heap[arg.v] : heap[arg.v][k] \notin ElementsOf(cls),
          list |-> heap[arg.v]]
    ELSE [raised |-> TRUE, list |-> <<>>]

\* a call on the list objects: it leaves the Summary as it is
ListCall(op, args, raised) ==
    /\ ret' = Call(op, args, raised)
    /\ UNCHANGED <<dists, sheet, summaryVars, run>>

\* cls(items=arg) or cls(groups=arg): the setter assigns a new empty list
\* object and add_items extends it by the checked copy; an instance whose
\* argument is rejected is never returned
Construct_Shared(cls, arg) ==
    /\ Len(lists.inst) < MaxInstances
    /\ lists' = IF check_list(cls, arg, lists.heap).raised \/ arg.type # "list"
                THEN lists
                ELSE [lists EXCEPT !.inst = Append(@, [cls |-> cls, list |-> arg.v])]
    /\ ListCall(cls, <<arg>>, check_list(cls, arg, lists.heap).raised)

Construct(cls, arg) ==
    /\ Len(lists.inst) < MaxInstances
    /\ Len(check_list(cls, arg, lists.heap).list) <= MaxLen
    /\ lists' = IF check_list(cls, arg, lists.heap).raised
                THEN lists
                ELSE [heap |-> Append(lists.heap, check_list(cls, arg, lists.heap).list),
                      inst |-> Append(lists.inst,
                                      [cls |-> cls, list |-> Len(lists.heap) + 1])]
    /\ ListCall(cls, <<arg>>, check_list(cls, arg, lists.heap).raised)

\* instance k: add_items(arg) or add_groups(arg) extends the instance's own
\* list object by the checked copy
ListAdd(k, arg) ==
    LET c == check_list(lists.inst[k].cls, arg, lists.heap) IN
    /\ c.raised \/ Len(lists.heap[lists.inst[k].list]) + Len(c.list) <= MaxLen
    /\ lists' = IF c.raised THEN lists
                ELSE [lists EXCEPT !.heap[lists.inst[k].list] = @ \o c.list]
    /\ ListCall("add", <<k>>, c.raised)

\* instance k: remove_items(names) or remove_groups(names) assigns the
\* filtered list through the setter: a new list object holding a copy of it.
\* The object the instance gives up is held by nothing else, and the new one
\* is given its place in the heap.
ListRemove(k, names) ==
    /\ lists' = [lists EXCEPT !.heap[lists.inst[k].list] =
                                  SelectSeq(@, LAMBDA x : x \notin names)]
    /\ ListCall("remove", <<k>>, FALSE)

\* the caller assigns the element x to the first place of the own list that
\* was given to constructors
CallerAssign(cls, x) ==
    /\ lists' = [lists EXCEPT !.heap[CallerListOf(cls)][1] = x]
    /\ ListCall("assign", <<CallerListOf(cls)>>, FALSE)

---------------------------------------------------------------------------
(* SpecOwn: groups and sheets constructed from the default argument, from  *)
(* the caller's list and from each other's list, and then edited           *)

\* what a caller hands over as items or groups to an instance of cls: the
\* default argument, the own list, the list of any instance (its items or
\* groups property), one element of the class, or None
ListArgs(cls) ==
    {Obj("list", id) :
        id \in {DefaultListOf(cls), CallerListOf(cls)}
                \cup {lists.inst[k].list : k \in DOMAIN lists.inst}}
    \cup {Obj("element", IF cls = "CashFlowGroup" THEN "a" ELSE "g")}
    \cup {Obj("NoneType", 0)}

InitOwn ==
    /\ dists = ImportedDists
    /\ sheet = <<>>
    /\ SummaryInit
    /\ ret = NoCall
    /\ run = NoRun
    /\ lists = NoLists

NextOwn ==
    \/ \E cls \in Classes : \E arg \in ListArgs(cls) : Construct(cls, arg)
    \/ \E k \in DOMAIN lists.inst : \E arg \in ListArgs(lists.inst[k].cls) :
           ListAdd(k, arg)
    \/ \E k \in DOMAIN lists.inst : ListRemove(k, {"a", "g"})
    \/ \E cls \in Classes :
           CallerAssign(cls, IF cls = "CashFlowGroup" THEN "b" ELSE "h")

SpecOwn == InitOwn /\ [][NextOwn]_vars

---------------------------------------------------------------------------
(* SpecEngine: one Summary read, evaluated, written to, edited and run,    *)
(* the calls made between the runs of window_result                        *)

\* no window_result call is in progress
Idle == run.pc \in {"idle", "done", "cancelled", "raised"}

\* Summary(CashFlowSheet([G1]), years=y, iterations=2)
InitEngine ==
    /\ dists = Pool
    /\ sheet = <<G1>>
    /\ years \in {1, 2}
    /\ interest_rate = DefaultInterestRate
    /\ iterations = 2
    /\ sampled = FALSE
    /\ total_cash_flow = Unset
    /\ net_cash_flow = Unset
    /\ calls = <<>>
    /\ ret = NoCall
    /\ run = NoRun
    /\ lists = NoLists

NextEngine ==
    \/ Idle /\ SampleCashFlow(0) /\ UNCHANGED <<run, lists>>
    \/ Idle /\ ReadTotalCashFlow(0) /\ UNCHANGED <<run, lists>>
    \/ Idle /\ ReadNetCashFlow(0) /\ UNCHANGED <<run, lists>>
    \/ Idle /\ GetIRR(0) /\ UNCHANGED <<run, lists>>
    \/ Idle /\ GetNPV(0) /\ UNCHANGED <<run, lists>>
    \/ Idle /\ GetPaybackPeriod(0) /\ UNCHANGED <<run, lists>>
    \/ Idle /\ WriteTotalCashFlow /\ UNCHANGED <<run, lists>>
    \/ Idle /\ WriteNetCashFlow /\ UNCHANGED <<run, lists>>
    \/ Idle /\ AddGroups(Obj("CashFlowGroup", G2)) /\ UNCHANGED <<run, lists>>
    \/ Idle /\ RemoveGroups({"h"}) /\ UNCHANGED <<run, lists>>
    \/ Idle /\ (\E g \in DOMAIN sheet : AddItems(g, Obj("CashFlowItem", NewItem)))
            /\ UNCHANGED <<run, lists>>
    \/ Idle /\ (\E g \in DOMAIN sheet : RemoveItems(g, {"c"}))
            /\ UNCHANGED <<run, lists>>
    \/ McStart /\ UNCHANGED lists
    \/ McSample(1) /\ UNCHANGED lists
    \/ McIRR(1) /\ UNCHANGED lists
    \/ McNPV(1) /\ UNCHANGED lists
    \/ McPayback(1) /\ UNCHANGED lists
    \/ \E stop_check \in BOOLEAN : McMeter(stop_check) /\ UNCHANGED lists
    \/ McReport /\ UNCHANGED lists

SpecEngine == InitEngine /\ [][NextEngine]_vars

---------------------------------------------------------------------------
(* SpecField: two items with the default costs, the fields of their cost   *)
(* distributions assigned directly                                         *)

\* the attributes every RandomType variant of the model declares
Fields == {"value", "start_year", "end_year"}

\* sheet.groups[g].items[i].<cost>.<field> = v: the cost property returns the
\* RandomType instance the item refers to, and the assignment writes the
\* attribute of that instance
AssignField(g, i, cost, field, v) ==
    /\ ret' = Call("assign_field", <<g, i, cost, field, v>>, FALSE)
    /\ dists' = [dists EXCEPT ![sheet[g].items[i][cost]][field] = v]
    /\ UNCHANGED <<sheet, summaryVars>>

\* sheet.groups[g].items[i].get_upfront_cost()
GetUpfrontCost(g, i, n) ==
    LET r == sample_value(dists[sheet[g].items[i].upfront_cost], 0, n) IN
    /\ ret' = [op |-> "get_upfront_cost", args |-> <<g, i>>,
               raised |-> r.raised, value |-> r.value, drew |-> r.drew,
               samplings |-> 0]
    /\ UNCHANGED <<dists, sheet, summaryVars>>

\* sheet.groups[g].items[i].get_recurring_cost(year)
GetRecurringCost(g, i, year, n) ==
    LET r == sample_value(dists[sheet[g].items[i].recurring_cost], year, n) IN
    /\ ret' = [op |-> "get_recurring_cost", args |-> <<g, i, year>>,
               raised |-> r.raised, value |-> r.value, drew |-> r.drew,
               samplings |-> 0]
    /\ UNCHANGED <<dists, sheet, summaryVars>>

\* the value assigned to a field: a cost of 1, an interval that starts after
\* year 0 or ends before year 2
FieldValues == {1}

NextField ==
    \/ \E g \in DOMAIN sheet : \E i \in DOMAIN sheet[g].items :
       \E cost \in {"upfront_cost", "recurring_cost"}, field \in Fields,
          v \in FieldValues :
           AssignField(g, i, cost, field, v) /\ UNCHANGED <<run, lists>>
    \/ \E g \in DOMAIN sheet : \E i \in DOMAIN sheet[g].items :
           GetUpfrontCost(g, i, 0) /\ UNCHANGED <<run, lists>>
    \/ \E g \in DOMAIN sheet : \E i \in DOMAIN sheet[g].items,
                                  year \in 1..MaxYears :
           GetRecurringCost(g, i, year, 0) /\ UNCHANGED <<run, lists>>
    \/ \E g \in DOMAIN sheet : \E i \in DOMAIN sheet[g].items :
           SetUpfrontCost(g, i, Obj("int", 5)) /\ UNCHANGED <<run, lists>>

SpecField == InitItem /\ [][NextField]_vars

---------------------------------------------------------------------------
(* Claims *)

\* C1: for every variant and every year y with y < start_year or
\* y > end_year, sample_value(y) returns exactly 0 and takes no value from the
\* random generator; at y = start_year and at y = end_year of a non-empty
\* interval the distribution is active: a Gaussian or Pareto draws, a
\* Constant returns its value.
C1_ZeroOutsideInterval ==
    ret.op = "sample_value" =>
        LET d == dists[ret.args[1]]
            y == ret.args[2]
        IN  /\ (y < d.start_year \/ y > d.end_year) =>
                    (~ret.raised /\ ret.value = 0 /\ ret.drew = 0)
            /\ ((y = d.start_year \/ y = d.end_year)
                    /\ d.start_year <= d.end_year) =>
                    IF d.kind = "Constant"
                    THEN ~ret.raised /\ ret.value = d.value
                    ELSE ret.drew = 1

C1_Witness ==
    /\ ret.op = "sample_value"
    /\ dists[ret.args[1]].kind = "Pareto"
    /\ dists[ret.args[1]].alpha = 0
    /\ ret.args[2] > dists[ret.args[1]].end_year
    /\ ret.value = 0 /\ ret.drew = 0 /\ ~ret.raised

\* C2: a Constant sampled at a year of its interval returns exactly its
\* stored value without taking a value from the random generator, and the
\* call leaves every distribution's fields as they were.
C2_ConstantReturnsValue ==
    [][ret'.op = "sample_value" =>
         /\ dists' = dists
         /\ LET d == dists[ret'.args[1]]
                y == ret'.args[2]
            IN (d.kind = "Constant" /\ d.start_year <= y /\ y <= d.end_year) =>
                 (~ret'.raised /\ ret'.value = d.value /\ ret'.drew = 0)]_vars

C2_Witness ==
    /\ ret.op = "sample_value"
    /\ dists[ret.args[1]].kind = "Constant"
    /\ dists[ret.args[1]].value = 3
    /\ dists[ret.args[1]].start_year = 1
    /\ ret.args[2] = 2
    /\ ret.value = 3

\* where a value assigned as a cost ends up: a RandomType is stored as
\* given, a number n as a new Constant(n) with start_year 0 and end_year
\* +infinity
StoredAs(cost, id) ==
    IF cost.type = "RandomType"
    THEN id = cost.v
    ELSE /\ id \notin DOMAIN dists
         /\ id \in DOMAIN dists'
         /\ dists'[id] = Constant(cost.v, 0, INF)

IsCost(cost) == cost.type \in {"RandomType", "int", "float", "bool"}

OldDistsKept == \A k \in DOMAIN dists : k \in DOMAIN dists' /\ dists'[k] = dists[k]

\* C3: assigning a cost of an item, in the constructor or later: a
\* distribution is stored as given, a number n (Python's int and float, bool
\* among them) as Constant(value=n) with start_year 0 and end_year +infinity;
\* any other value raises TypeError and the stored costs stay as they were.
C3_CostAssignment ==
    [][/\ ret'.op = "set_upfront_cost" =>
            LET g == ret'.args[1]
                i == ret'.args[2]
                c == ret'.args[3]
            IN  IF IsCost(c)
                THEN /\ ~ret'.raised
                     /\ StoredAs(c, sheet'[g].items[i].upfront_cost)
                     /\ sheet' = [sheet EXCEPT ![g].items[i].upfront_cost =
                                     sheet'[g].items[i].upfront_cost]
                     /\ OldDistsKept
                ELSE ret'.raised /\ sheet' = sheet /\ dists' = dists
       /\ ret'.op = "set_recurring_cost" =>
            LET g == ret'.args[1]
                i == ret'.args[2]
                c == ret'.args[3]
            IN  IF IsCost(c)
                THEN /\ ~ret'.raised
                     /\ StoredAs(c, sheet'[g].items[i].recurring_cost)
                     /\ sheet' = [sheet EXCEPT ![g].items[i].recurring_cost =
                                     sheet'[g].items[i].recurring_cost]
                     /\ OldDistsKept
                ELSE ret'.raised /\ sheet' = sheet /\ dists' = dists
       /\ ret'.op = "CashFlowItem" =>
            LET g == ret'.args[1]
                up == ret'.args[3]
                rec == ret'.args[4]
                it == sheet'[g].items[Len(sheet'[g].items)]
            IN  IF IsCost(up) /\ IsCost(rec)
                THEN /\ ~ret'.raised
                     /\ it.name = ret'.args[2]
                     /\ StoredAs(up, it.upfront_cost)
                     /\ StoredAs(rec, it.recurring_cost)
                     /\ (it.upfront_cost = it.recurring_cost) =>
                            (up.type = "RandomType" /\ up = rec)
                     /\ OldDistsKept
                ELSE ret'.raised /\ sheet' = sheet /\ dists' = dists]_vars

C3_Witness ==
    /\ ret.op = "set_upfront_cost"
    /\ ~ret.raised
    /\ ret.args[3] = Obj("int", 5)
    /\ sheet[ret.args[1]].items[ret.args[2]].upfront_cost > 2
    /\ dists[sheet[ret.args[1]].items[ret.args[2]].upfront_cost] = Constant(5, 0, INF)
    /\ sheet[ret.args[1]].items[ret.args[2]].recurring_cost = 2

\* `new` is `old` with the elements of `arg` appended in their order when
\* `arg` is one `kind` or a list of them, and the call raised and left `old`
\* as it was otherwise
AddedAllOrNothing(kind, arg, old, new) ==
    IF arg.type = kind
    THEN ~ret'.raised /\ new = Append(old, arg.v)
    ELSE IF arg.type = "list" /\ \A k \in DOMAIN arg.v : arg.v[k].type = kind
    THEN /\ ~ret'.raised
         /\ Len(new) = Len(old) + Len(arg.v)
         /\ \A k \in DOMAIN old : new[k] = old[k]
         /\ \A k \in DOMAIN arg.v : new[Len(old) + k] = arg.v[k].v
    ELSE ret'.raised /\ new = old

KeptIndex(old, names, k) ==
    CHOOSE j \in DOMAIN old :
        /\ old[j].name \notin names
        /\ Cardinality({i \in 1..j : old[i].name \notin names}) = k

\* `new` holds exactly the elements of `old` not named in `names`, in order
RemovedNamed(old, names, new) ==
    /\ Len(new) = Cardinality({j \in DOMAIN old : old[j].name \notin names})
    /\ \A k \in DOMAIN new : new[k] = old[KeptIndex(old, names, k)]
    /\ (\A j \in DOMAIN old : old[j].name \notin names) => new = old

\* C5: remove_items on a group and remove_groups on a sheet leave exactly
\* the elements whose name is none of the given names, in their order, every
\* duplicate of a given name removed; with no element so named the call
\* raises nothing and the collection is unchanged.
C5_RemoveByName ==
    [][/\ ret'.op = "remove_items" =>
            LET g == ret'.args[1] IN
            /\ ~ret'.raised
            /\ RemovedNamed(sheet[g].items, ret'.args[2], sheet'[g].items)
            /\ sheet' = [sheet EXCEPT ![g].items = sheet'[g].items]
       /\ ret'.op = "remove_groups" =>
            /\ ~ret'.raised
            /\ RemovedNamed(sheet, ret'.args[1], sheet')]_vars

C5_Witness ==
    /\ ret.op = "remove_items"
    /\ ret.args[2] = {"a"}
    /\ Len(sheet) = 2
    /\ sheet[ret.args[1]].items = <<Item("b", "", 1, 2)>>

\* C6: an assignment to Summary.total_cash_flow or Summary.net_cash_flow
\* raises, sampled or not, and leaves the sampled flag and both cached
\* fields as they were.
C6_CacheWriteRejected ==
    [][ret'.op \in {"set_total_cash_flow", "set_net_cash_flow"} =>
         /\ ret'.raised
         /\ sampled' = sampled
         /\ total_cash_flow' = total_cash_flow
         /\ net_cash_flow' = net_cash_flow]_vars

C6_Witness ==
    /\ ret.op = "set_net_cash_flow"
    /\ ret.raised
    /\ sampled
    /\ Len(net_cash_flow) = 2
    /\ net_cash_flow[1] # 0

CacheReads == {"total_cash_flow", "net_cash_flow"}
LazyOps == CacheReads \cup {"get_IRR", "get_NPV", "get_payback_period"}

\* C7: a read of a cached field or a metric call on an unsampled Summary
\* makes exactly one sampling and, when it returns, has set sampled; on a
\* sampled Summary it makes no sampling, takes nothing from the generator,
\* leaves the cache as it is, a read returns the cached field and a metric
\* is computed from the cached net_cash_flow; so the same read made twice in
\* a row returns the same value.
C7_LazySampling ==
    [][ret'.op \in LazyOps =>
         /\ sampled =>
              /\ ret'.samplings = 0 /\ ret'.drew = 0
              /\ sampled'
              /\ total_cash_flow' = total_cash_flow
              /\ net_cash_flow' = net_cash_flow
              /\ ret'.op = "total_cash_flow" =>
                    (~ret'.raised /\ ret'.value = total_cash_flow)
              /\ ret'.op = "net_cash_flow" =>
                    (~ret'.raised /\ ret'.value = net_cash_flow)
              /\ ret'.op = "get_IRR" =>
                    (~ret'.raised /\ ret'.value = irr(net_cash_flow))
              /\ ret'.op = "get_NPV" =>
                    (~ret'.raised
                       /\ ret'.value = npv(interest_rate, net_cash_flow))
              /\ (ret'.op = "get_payback_period" /\ ~ret'.raised) =>
                    ret'.value = payback_period(net_cash_flow, years).value
         /\ ~sampled =>
              /\ ret'.samplings = 1
              /\ ~ret'.raised => sampled'
              /\ (~ret'.raised /\ ret'.op = "total_cash_flow") =>
                    ret'.value = total_cash_flow'
              /\ (~ret'.raised /\ ret'.op = "net_cash_flow") =>
                    ret'.value = net_cash_flow'
         /\ (ret.op = ret'.op /\ ret'.op \in CacheReads
                /\ ~ret.raised /\ ~ret'.raised) =>
              ret'.value = ret.value]_vars

C7_Witness ==
    /\ ret.op = "get_NPV"
    /\ ret.samplings = 1
    /\ ret.drew > 0
    /\ ~ret.raised
    /\ sampled
    /\ Len(net_cash_flow) = 3

\* a sample_cash_flow, called or made by a lazy read, returned in this step
SamplingReturned ==
    /\ ret'.samplings = 1
    /\ sampled'
    /\ ret'.op = "sample_cash_flow" => ~ret'.raised

\* the calls of the log `log` that sample cost `cost` of item i of group g
\* with year `year`
CallsOf(log, g, i, cost, year) ==
    {p \in DOMAIN log : /\ log[p].group = g /\ log[p].item = i
                        /\ log[p].cost = cost /\ log[p].year = year}

\* C8: one sample_cash_flow samples each item's upfront distribution exactly
\* once, with year 0, and its recurring distribution exactly once for each
\* year 1..years and for no other year; total_cash_flow[0][g][i] is the
\* upfront draw and total_cash_flow[t][g][i] the year-t recurring draw of
\* item i of group g.  (Year t is element t + 1 of the sequence.)
C8_OneDrawPerLeafPerYear ==
    [][SamplingReturned =>
         /\ Len(total_cash_flow') = years + 1
         /\ Len(calls') = Leaves(sheet) * (years + 1)
         /\ \A t \in 0..years :
              /\ Len(total_cash_flow'[t + 1]) = Len(sheet)
              /\ \A g \in DOMAIN sheet :
                   /\ Len(total_cash_flow'[t + 1][g]) = Len(sheet[g].items)
                   /\ \A i \in DOMAIN sheet[g].items :
                        LET cost == IF t = 0 THEN "upfront" ELSE "recurring"
                            dist == IF t = 0 THEN sheet[g].items[i].upfront_cost
                                    ELSE sheet[g].items[i].recurring_cost
                            ps == CallsOf(calls', g, i, cost, t)
                        IN  /\ Cardinality(ps) = 1
                            /\ \A p \in ps :
                                 /\ calls'[p].dist = dist
                                 /\ calls'[p].value = total_cash_flow'[t + 1][g][i]]_vars

C8_Witness ==
    /\ ret.op = "sample_cash_flow"
    /\ ~ret.raised
    /\ sampled
    /\ sheet = <<G1, G2>>
    /\ years = 1
    /\ Len(calls) = 6
    /\ total_cash_flow[2][1][1] = 3
    /\ total_cash_flow[1][2][1] > 0

\* C9, as claimed: in every state with sampled true, total_cash_flow and
\* net_cash_flow have length years + 1 for the current value of years.
C9_CacheLengthIsYearsPlusOne ==
    sampled =>
        /\ Len(total_cash_flow) = years + 1
        /\ Len(net_cash_flow) = years + 1

RECURSIVE LeafSum(_)
LeafSum(year) ==
    IF year = <<>> THEN 0 ELSE SumSeq(Head(year)) + LeafSum(Tail(year))

RECURSIVE LeafCount(_)
LeafCount(year) ==
    IF year = <<>> THEN 0 ELSE Len(Head(year)) + LeafCount(Tail(year))

\* C10: in every sampled state the two cached fields come from one trial:
\* net_cash_flow[t] is the sum of every leaf value of total_cash_flow[t], 0
\* when there is none, and the sampling that filled the cache made one
\* sample_value call per leaf value, none more for the net flow.
C10_NetIsSumOfTotal ==
    sampled =>
        /\ Len(net_cash_flow) = Len(total_cash_flow)
        /\ \A t \in DOMAIN total_cash_flow :
             net_cash_flow[t] = LeafSum(total_cash_flow[t])
        /\ Len(calls) = SumSeq([t \in DOMAIN total_cash_flow |->
                                   LeafCount(total_cash_flow[t])])

C10_Witness ==
    /\ sampled
    /\ Len(net_cash_flow) = 3
    /\ Len(total_cash_flow[1]) = 2
    /\ net_cash_flow[1] < 0
    /\ net_cash_flow[2] = 6

EditOps == {"add_groups", "remove_groups", "add_items", "remove_items"}

\* C11: on a sampled Summary add_groups / remove_groups on the sheet and
\* add_items / remove_items on a group leave sampled true and both cached
\* fields as they are; and from a sampled state every step that is not an
\* explicit sample_cash_flow keeps the cache, a read returning it and a metric
\* being computed from it, so that the values before the edit are what is
\* read after it.
C11_EditsKeepCache ==
    [][sampled =>
         /\ ret'.op \in EditOps =>
              /\ sampled'
              /\ total_cash_flow' = total_cash_flow
              /\ net_cash_flow' = net_cash_flow
         /\ ret'.op # "sample_cash_flow" =>
              /\ sampled'
              /\ total_cash_flow' = total_cash_flow
              /\ net_cash_flow' = net_cash_flow
              /\ ret'.op = "total_cash_flow" => ret'.value = total_cash_flow
              /\ ret'.op = "net_cash_flow" => ret'.value = net_cash_flow
              /\ ret'.op = "get_NPV" =>
                    ret'.value = npv(interest_rate, net_cash_flow)
              /\ ret'.op = "get_IRR" => ret'.value = irr(net_cash_flow)]_vars

\* a read after an edit returns a cache that no longer has the sheet's shape
C11_Witness ==
    /\ sampled
    /\ ret.op = "total_cash_flow"
    /\ ~ret.raised
    /\ ret.value = total_cash_flow
    /\ Len(sheet) = 2
    /\ Len(total_cash_flow[1]) = 1
    /\ Len(sheet[1].items) = 2
    /\ Len(total_cash_flow[1][1]) = 1

\* num / den in lowest terms
Lowest(x) ==
    [kind |-> x.kind,
     num |-> x.num \div GCD(Abs(x.num), x.den),
     den |-> x.den \div GCD(Abs(x.num), x.den)]

\* values[1] + (values[2] + (values[3] + ...) * d) * d for d = 1 / (1 + rate)
RECURSIVE Discounted(_, _)
Discounted(values, rate) ==
    IF values = <<>> THEN Finite(0, 1)
    ELSE LET rest == Discounted(Tail(values), rate)
             d == Discount(rate)
         IN  Lowest(Finite(Head(values) * rest.den * d.den + rest.num * d.num,
                           rest.den * d.den))

\* C12: get_NPV returns the sum over t = 0..years of
\* net_cash_flow[t] / (1 + interest_rate)^t of the cached net_cash_flow, year 0
\* undiscounted; at interest_rate = 0 that is the plain sum of net_cash_flow.
C12_NPV ==
    [][(ret'.op = "get_NPV" /\ ~ret'.raised) =>
         /\ ret'.value.kind = "finite"
         /\ Lowest(ret'.value) = Discounted(net_cash_flow', interest_rate)
         /\ interest_rate = 0 =>
              ret'.value.num = SumSeq(net_cash_flow') * ret'.value.den]_vars

\* -2 + 1 / 1.1 + 3 / 1.21 = 1.68 / 1.21
C12_Witness ==
    /\ ret.op = "get_NPV"
    /\ ~ret.raised
    /\ interest_rate = DefaultInterestRate
    /\ net_cash_flow = <<-2, 1, 3>>
    /\ ret.value.num * 121 = 168 * ret.value.den

\* the sum over t of values[t] / (1 + r)^t is 0, for the rate r = num / den
\* (cleared of its denominators)
ZeroAt(values, r) ==
    SumSeq([k \in DOMAIN values |->
               values[k] * Pow(r.den, k - 1)
                         * Pow(r.num + r.den, Len(values) - k)]) = 0

SameSign(values) ==
    \/ \A k \in DOMAIN values : values[k] >= 0
    \/ \A k \in DOMAIN values : values[k] <= 0

\* C13: get_IRR never raises; a number it returns is a rate r > -1 at which
\* the sum over t of net_cash_flow[t] / (1 + r)^t is 0 for the cached
\* net_cash_flow; for the flow [-100, 110] it returns 0.10; when every yearly
\* net flow has the same sign it returns NaN and not a number; and when the
\* flow changes sign exactly once it returns a rate and not NaN.  (Rates are
\* exact rationals here; an irrational rate is not computed.)
C13_IRR ==
    [][ret'.op = "get_IRR" =>
         /\ ~ret'.raised
         /\ ret'.value.kind \in {"finite", "nan", "irr", "irr_or_nan"}
         /\ ret'.value.kind = "finite" =>
              /\ ret'.value.den > 0
              /\ ret'.value.num + ret'.value.den > 0
              /\ ZeroAt(net_cash_flow', ret'.value)
         /\ net_cash_flow' = <<-100, 110>> =>
              /\ ret'.value.kind = "finite"
              /\ ret'.value.num * 10 = ret'.value.den
         /\ SameSign(net_cash_flow') => ret'.value = NotFinite("nan")
         /\ SignChanges(net_cash_flow') = 1 =>
              ret'.value.kind \in {"finite", "irr"}]_vars

C13_Witness ==
    /\ ret.op = "get_IRR"
    /\ net_cash_flow = <<-100, 110>>
    /\ ret.value = Finite(1, 10)

\* the cumulative net cash flow of year t: values[0] + ... + values[t]
RECURSIVE CumulativeAt(_, _)
CumulativeAt(values, t) ==
    IF t < 0 THEN 0 ELSE CumulativeAt(values, t - 1) + values[t + 1]

\* the years of the horizon 0..n_years at which the cumulative flow is positive
PositiveYears(values, n_years) ==
    {t \in 0..n_years : t < Len(values) /\ CumulativeAt(values, t) > 0}

FirstOf(S) == CHOOSE t \in S : \A u \in S : t <= u

\* the value x is c + |a / b|, b not 0
IsInterpolated(x, c, a, b) ==
    /\ x.kind = "finite"
    /\ x.num * Abs(b) = (c * Abs(b) + Abs(a)) * x.den

\* C14: when the cumulative sum of the cached net_cash_flow is not positive at
\* year 0 and is positive at some year of 1..years, get_payback_period returns
\* c + |cumsum[c] / net_cash_flow[t*]| for t* the first year with a positive
\* cumulative sum and c = t* - 1; for [-100, 30, 30, 30, 30] and years = 4
\* that is 3.333..., 10/3.
C14_PaybackInterpolated ==
    [][ret'.op = "get_payback_period" =>
         LET net == net_cash_flow'
             pos == PositiveYears(net, years)
         IN  (pos # {} /\ 0 \notin pos) =>
                /\ ~ret'.raised
                /\ IsInterpolated(ret'.value, FirstOf(pos) - 1,
                                  CumulativeAt(net, FirstOf(pos) - 1),
                                  net[FirstOf(pos) + 1])
                /\ (net = <<-100, 30, 30, 30, 30>> /\ years = 4) =>
                      ret'.value.num * 3 = 10 * ret'.value.den]_vars

C14_Witness ==
    /\ ret.op = "get_payback_period"
    /\ ~ret.raised
    /\ years = 4
    /\ net_cash_flow = <<-100, 30, 30, 30, 30>>
    /\ ret.value.kind = "finite"
    /\ ret.value.num * 3 = 10 * ret.value.den

\* C15: when the cumulative sum of the cached net_cash_flow is positive at no
\* year of 0..years, get_payback_period returns the value computed with
\* t* = years, (years - 1) + |cumsum[years - 1] / net_cash_flow[years]| (for
\* years = 0 the index -1 is Python's last element; a division by zero gives
\* the float inf or nan), and the same value on the next call.
C15_PaybackNeverPositive ==
    [][ret'.op = "get_payback_period" =>
         LET net == net_cash_flow'
             last == IF years = 0 THEN Len(net) - 1 ELSE years - 1
         IN  (PositiveYears(net, years) = {} /\ Len(net) = years + 1) =>
                /\ ~ret'.raised
                /\ net[years + 1] # 0 =>
                      IsInterpolated(ret'.value, years - 1,
                                     CumulativeAt(net, last), net[years + 1])
                /\ net[years + 1] = 0 =>
                      ret'.value = IF CumulativeAt(net, last) # 0
                                   THEN NotFinite("inf") ELSE NotFinite("nan")
                /\ (ret.op = "get_payback_period" /\ ~ret.raised /\ sampled) =>
                      ret'.value = ret.value]_vars

\* cumulative flow -2, -1, -3: the result is 1 + |-1 / -2| = 3/2
C15_Witness ==
    /\ ret.op = "get_payback_period"
    /\ ~ret.raised
    /\ years = 2
    /\ net_cash_flow = <<-2, 1, -2>>
    /\ ret.value.num * 2 = 3 * ret.value.den

\* the cumulative flow is negative at every year of the horizon
NeverReached(values, n_years) ==
    /\ Len(values) = n_years + 1
    /\ \A t \in 0..n_years : CumulativeAt(values, t) < 0

\* not-a-number, or a value outside 0..n_years, where every reached payback
\* period lies
IsDegenerate(x, n_years) ==
    \/ x.kind \in {"nan", "inf"}
    \/ x.kind = "finite" /\ (x.num < 0 \/ x.num > n_years * x.den)

\* C16, as claimed: when the payback period is never reached within the
\* horizon, get_payback_period raises nothing and returns not-a-number or a
\* flagged value that no reached payback period can equal.
C16_PaybackDegenerateFlagged ==
    [][(ret'.op = "get_payback_period"
          /\ NeverReached(net_cash_flow', years)) =>
         /\ ~ret'.raised
         /\ IsDegenerate(ret'.value, years)]_vars

\* the years of the horizon at which the cumulative flow is not negative
NonNegativeYears(values, n_years) ==
    {t \in 0..n_years : t < Len(values) /\ CumulativeAt(values, t) >= 0}

\* C17, as claimed: when the cumulative sum of the cached net_cash_flow is
\* non-negative at some year of 0..years, get_payback_period returns the
\* fractional year at which the interpolated cumulative flow first is
\* non-negative: 0 when it is so at year 0, and never a negative value nor
\* one above years.
C17_PaybackFirstNonNegative ==
    [][ret'.op = "get_payback_period" =>
         LET net == net_cash_flow'
             nn == NonNegativeYears(net, years)
         IN  nn # {} =>
                /\ ~ret'.raised
                /\ ret'.value.kind = "finite"
                /\ ret'.value.num >= 0
                /\ ret'.value.num <= years * ret'.value.den
                /\ 0 \in nn => ret'.value.num = 0
                /\ 0 \notin nn =>
                      IsInterpolated(ret'.value, FirstOf(nn) - 1,
                                     CumulativeAt(net, FirstOf(nn) - 1),
                                     net[FirstOf(nn) + 1])]_vars

\* the metrics the lists of a run hold for iteration k: those of the net cash
\* flow that iteration's sampling produced
EntriesOfTrial(r, k) ==
    /\ r.list_IRR[k] = irr(r.trials[k])
    /\ r.list_NPV[k] = npv(interest_rate, r.trials[k])
    /\ r.list_payback_period[k] = payback_period(r.trials[k], years).value

\* C18: a Monte Carlo run that reaches its report has made exactly
\* `iterations` iterations; each iteration starts with one explicit
\* sample_cash_flow whose fresh result becomes the cache; the three metric
\* calls of the iteration make no sampling and leave the cache as that
\* sampling made it; and entry i of each of the three lists is the metric of
\* the net_cash_flow of the i-th sampling.
C18_RunIterations ==
    [][/\ (run.pc = "sample" /\ run'.pc # "raised") =>
            /\ ret'.op = "sample_cash_flow" /\ ret'.samplings = 1
            /\ sampled'
            /\ \E seed \in Seeds :
                   /\ net_cash_flow' =
                        get_cash_flow(sheet, years, dists, seed).net_cash_flow
                   /\ total_cash_flow' =
                        get_cash_flow(sheet, years, dists, seed).total_cash_flow
            /\ Len(run'.trials) = run.i + 1
       /\ run.pc \in {"irr", "npv", "payback"} =>
            /\ ret'.samplings = 0
            /\ net_cash_flow' = net_cash_flow
            /\ total_cash_flow' = total_cash_flow
            /\ net_cash_flow = run.trials[run.i + 1]
       /\ run'.pc = "done" =>
            /\ run'.i = iterations
            /\ Len(run'.trials) = iterations
            /\ Len(run'.list_IRR) = iterations
            /\ Len(run'.list_NPV) = iterations
            /\ Len(run'.list_payback_period) = iterations
            /\ \A k \in 1..iterations : EntriesOfTrial(run', k)]_vars

C18_Witness ==
    /\ run.pc = "done"
    /\ run.iterations = 2
    /\ run.trials[1] # run.trials[2]
    /\ run.list_NPV[1] # run.list_NPV[2]
    /\ run.list_payback_period[1] # run.list_payback_period[2]

\* every upfront and recurring cost of the sheet is a Constant
AllConstant ==
    \A g \in DOMAIN sheet : \A i \in DOMAIN sheet[g].items :
        /\ dists[sheet[g].items[i].upfront_cost].kind = "Constant"
        /\ dists[sheet[g].items[i].recurring_cost].kind = "Constant"

\* the three lists of a run with the statistics reported of each
Series ==
    {[list |-> run.list_IRR, stat |-> run.report.IRR],
     [list |-> run.list_NPV, stat |-> run.report.NPV],
     [list |-> run.list_payback_period, stat |-> run.report.payback_period]}

\* every trial of the run gave the same net_cash_flow and the same metrics
SameTrials ==
    /\ \A k \in DOMAIN run.trials : run.trials[k] = run.trials[1]
    /\ \A x \in Series : \A k \in DOMAIN x.list : x.list[k] = x.list[1]

\* C19 as stated: on a Constant-only scenario every trial of a completed run
\* yields the same net_cash_flow and the same three metrics, and with
\* iterations = 1 the reported mean of each metric is its single value and
\* the reported standard deviation is 0.
C19_ConstantRunExact ==
    (run.pc = "done" /\ AllConstant) =>
        /\ SameTrials
        /\ run.iterations = 1 =>
             \A x \in Series :
                 x.stat.mean = x.list[1] /\ x.stat.std = Finite(0, 1)

\* C19: on a Constant-only scenario every trial of a completed run yields
\* the same net_cash_flow and the same three metrics; with iterations = 1 the
\* reported mean of each metric is its single value, and the reported
\* standard deviation is 0 when that value is a finite number and nan when
\* the value is nan or inf.
C19_ConstantRun ==
    (run.pc = "done" /\ AllConstant) =>
        /\ SameTrials
        /\ run.iterations = 1 =>
             \A x \in Series :
                 /\ x.stat.mean = x.list[1]
                 /\ x.list[1].kind \in {"finite", "irr"} =>
                        x.stat.std = Finite(0, 1)
                 /\ x.list[1].kind \in {"nan", "inf"} =>
                        x.stat.std = NotFinite("nan")

C19_Witness ==
    /\ run.pc = "done"
    /\ AllConstant
    /\ sheet # <<>>
    /\ run.iterations = 1
    /\ run.report.NPV.mean.kind = "finite"
    /\ run.report.NPV.std = Finite(0, 1)
    /\ run.report.IRR.std = NotFinite("nan")
    /\ run.report.payback_period.mean = NotFinite("inf")

\* C20: a run is cancelled only by the progress meter of an iteration that is
\* not the last, after that iteration's sampling and its three metric calls,
\* and such an answer of the meter always cancels; the step that cancels
\* leaves the Summary as it is; a cancelled run has reported no statistic and
\* leaves sampled set and the cache of the iteration's sampling:
\* net_cash_flow is the per-year sum of total_cash_flow, both over years + 1
\* years.
C20_Cancellation ==
    [][/\ (run'.pc = "cancelled" /\ run.pc # "cancelled") =>
            /\ run.pc = "meter"
            /\ ~run'.stop_check
            /\ run.i + 1 < run.iterations
            /\ Len(run.trials) = run.i + 1
            /\ EntriesOfTrial(run, run.i + 1)
            /\ UNCHANGED <<sampled, total_cash_flow, net_cash_flow, calls>>
       /\ (run.pc = "meter" /\ ~run'.stop_check /\ run.i + 1 # run.iterations) =>
            run'.pc = "cancelled"
       /\ run'.pc = "cancelled" =>
            /\ run'.report = NoReport
            /\ sampled'
            /\ net_cash_flow' = run'.trials[Len(run'.trials)]
            /\ Len(total_cash_flow') = years + 1
            /\ net_cash_flow' = NetOf(total_cash_flow')]_vars

C20_Witness ==
    /\ run.pc = "cancelled"
    /\ run.iterations = 3
    /\ run.i = 1
    /\ run.trials[1] # run.trials[2]
    /\ net_cash_flow = run.trials[2]
    /\ run.list_NPV[3] = Finite(0, 1)

\* the sheet of the Summary as a value: every item with its two distributions
SheetValue ==
    [g \in DOMAIN sheet |->
        [name |-> sheet[g].name, desc |-> sheet[g].desc,
         items |-> [i \in DOMAIN sheet[g].items |->
                       [name |-> sheet[g].items[i].name,
                        desc |-> sheet[g].items[i].desc,
                        upfront_cost |-> dists[sheet[g].items[i].upfront_cost],
                        recurring_cost |-> dists[sheet[g].items[i].recurring_cost]]]]]

\* C21: a Summary that create_from_etree_element returns for the element the
\* Summary generated, or that read_XML_file returns for the file
\* generate_XML_file wrote, has the interest_rate, the years and the
\* iterations of the Summary written, the same groups and items (names,
\* descriptions, cost distributions) in the same order, and is unsampled.
C21_SummaryRoundTrip ==
    (ret.op \in {"create_from_etree_element", "read_XML_file"} /\ ~ret.raised) =>
        /\ ret.value.value.interest_rate = interest_rate
        /\ ret.value.value.years = years
        /\ ret.value.value.iterations = iterations
        /\ ret.value.value.cash_flow_sheet = SheetValue
        /\ ~ret.value.value.sampled

\* C22: the element a distribution generates carries no value for a
\* start_year of 0 and for an end_year of +infinity and the str() of every
\* other bound; a bound read with no text is 0 for start_year and +infinity
\* for end_year; and reading the element a distribution generated, as it is or
\* parsed from a document, returns the same variant with the same shape
\* parameters and the same bounds, for every variant and every pair of bounds.
C22_BoundsRoundTrip ==
    ret.op = "random_type.create_from_etree_element" =>
        \A d \in DistSet :
            LET e == dist_generate_etree_element(d) IN
            /\ e.startYear = IF d.start_year = 0 THEN EmptyText ELSE str(d.start_year)
            /\ e.endYear = IF d.end_year = INF THEN EmptyText ELSE str(d.end_year)
            /\ ret.args[1] \in {e, ParsedDist(e)} =>
                 /\ ~ret.raised
                 /\ ~ret.value.none
                 /\ ret.value.value = d

\* C23: random_type.create_from_etree_element raises for an element whose tag
\* is not Gaussian, Constant or Pareto and returns no value for it, and
\* CashFlowItem.create_from_etree_element raises for an item element that
\* holds such an element as a cost.
C23_UnknownTagRaises ==
    /\ (ret.op = "random_type.create_from_etree_element"
          /\ ret.args[1].tag \notin {"Gaussian", "Constant", "Pareto"}) =>
            ret.raised
    /\ (ret.op = "CashFlowItem.create_from_etree_element"
          /\ \/ ret.args[1].upfrontCost[1] \in ForeignElements
             \/ ret.args[1].recurringCost[1] \in ForeignElements) =>
            ret.raised

\* the list objects that instance k does not hold: those of the other
\* instances, the two default arguments and the caller's lists
OthersOf(k) ==
    {1, 2, 3, 4} \cup {lists.inst[j].list : j \in DOMAIN lists.inst \ {k}}

\* C24: every instance holds a list object of its own, which is neither a
\* default argument, nor a list of the caller, nor the list of another
\* instance; a construction leaves every existing list as it is and gives the
\* new instance a copy of its argument; add_items, remove_items, add_groups
\* and remove_groups on one instance leave the content of the list of every
\* other instance, of the default arguments and of the caller's lists as it
\* is; and an assignment of the caller to a place of the own list leaves
\* every instance as it is.
C24_OwnCollections ==
    [][/\ \A k \in DOMAIN lists'.inst :
            /\ lists'.inst[k].list \notin {1, 2, 3, 4}
            /\ \A j \in DOMAIN lists'.inst :
                   j # k => lists'.inst[j].list # lists'.inst[k].list
       /\ ret'.op \in Classes =>
            /\ \A id \in DOMAIN lists.heap : lists'.heap[id] = lists.heap[id]
            /\ \A k \in DOMAIN lists.inst : lists'.inst[k] = lists.inst[k]
            /\ (~ret'.raised /\ ret'.args[1].type = "list") =>
                   lists'.heap[lists'.inst[Len(lists'.inst)].list]
                       = lists.heap[ret'.args[1].v]
       /\ ret'.op \in {"add", "remove"} =>
            \A id \in OthersOf(ret'.args[1]) : lists'.heap[id] = lists.heap[id]
       /\ ret'.op = "assign" =>
            \A k \in DOMAIN lists.inst :
                lists'.heap[lists'.inst[k].list] = lists.heap[lists.inst[k].list]
      ]_vars

C24_Witness ==
    /\ ret.op = "add"
    /\ ~ret.raised
    /\ Len(lists.inst) = 2
    /\ lists.inst[1].cls = "CashFlowGroup"
    /\ lists.inst[2].cls = "CashFlowGroup"
    /\ ret.args[1] = 1
    /\ lists.heap[lists.inst[1].list] = <<"a">>
    /\ lists.heap[lists.inst[2].list] = <<>>
    /\ lists.heap[1] = <<>>
    /\ lists.heap[3] = <<"a">>

\* C25: the sampled flag is false when the Summary is constructed; every call
\* that makes a sampling and returns (sample_cash_flow itself, or a read or a
\* metric that samples lazily) leaves it true; and no step of the engine
\* (reads, metrics, rejected writes of the cached fields, edits of the sheet,
\* the steps of a Monte Carlo run that completes, is cancelled or is left by
\* an exception) takes it from true to false.
C25_SampledMonotone ==
    /\ ~sampled
    /\ [][/\ sampled => sampled'
          /\ (ret'.samplings = 1 /\ ~ret'.raised) => sampled'
          /\ (ret'.op = "sample_cash_flow" /\ ~ret'.raised) => sampled']_vars

C25_Witness ==
    /\ sampled
    /\ run.pc = "cancelled"
    /\ ret.op = "remove_groups"
    /\ Len(sheet) = 1
    /\ Len(net_cash_flow) = 2

\* C26: distributions have value semantics across items: when a field of one
\* item's cost distribution is assigned directly, the upfront cost and the
\* recurring cost of every year sampled for any other item stay what they were.
C26_ValueSemantics ==
    [][ret'.op = "assign_field" =>
         \A j \in DOMAIN sheet[ret'.args[1]].items :
             j # ret'.args[2] =>
                 LET it == sheet[ret'.args[1]].items[j] IN
                 /\ sample_value(dists'[it.upfront_cost], 0, 0)
                      = sample_value(dists[it.upfront_cost], 0, 0)
                 /\ \A year \in 1..MaxYears :
                        sample_value(dists'[it.recurring_cost], year, 0)
                          = sample_value(dists[it.recurring_cost], year, 0)]_vars

\* C27: sample_cash_flow is atomic with respect to failure: a call in which a
\* draw raises leaves sampled, total_cash_flow and net_cash_flow as they were,
\* and after any call the cache is either unset or one complete trial: a
\* total_cash_flow of years + 1 rows over the groups of the sheet, with the
\* net_cash_flow that is its sums.
C27_FailureAtomic ==
    [][ret'.op = "sample_cash_flow" =>
         /\ ret'.raised =>
                UNCHANGED <<sampled, total_cash_flow, net_cash_flow>>
         /\ ~ret'.raised =>
                /\ sampled'
                /\ Len(total_cash_flow') = years + 1
                /\ \A t \in DOMAIN total_cash_flow' :
                       Len(total_cash_flow'[t]) = Len(sheet)
         /\ net_cash_flow' = NetOf(total_cash_flow')
         /\ ~sampled' => total_cash_flow' = Unset]_vars

C27_Witness ==
    /\ ret.op = "sample_cash_flow"
    /\ ret.raised
    /\ sampled
    /\ Len(sheet) = 2
    /\ Len(total_cash_flow) = 3
    /\ Len(total_cash_flow[1]) = 1

====
